---------------------------- MODULE Spec2Model ----------------------------
(***************************************************************************)
(* TTB label verification: the decision engine of src/lib/verification.ts  *)
(* and the helpers of src/lib/constraints.ts it relies on.                  *)
(*                                                                         *)
(* Representation.                                                         *)
(*  - A text is a sequence of characters; a character is a one-character   *)
(*    string, and a glyph outside ASCII is written by its code point       *)
(*    ("U+2019").  TLC cannot look inside a string, so the record fields   *)
(*    hold strings and Chars maps each of them to its characters.          *)
(*  - A number of the program (a confidence, a percentage, a volume) is an *)
(*    exact fraction [n |-> numerator, d |-> denominator] in lowest terms. *)
(*    The grave accent and the ASCII double quote are written "U+0060"     *)
(*    and "U+0022".                                                        *)
(*  - undefined is the string Undefined; "" is the empty string.           *)
(***************************************************************************)
EXTENDS Integers, Sequences, FiniteSets, Bags, TLC

(***************************************************************************)
(* Exact fractions                                                         *)
(***************************************************************************)
Abs(x) == IF x < 0 THEN -x ELSE x

RECURSIVE Gcd(_, _)
Gcd(a, b) == IF b = 0 THEN a ELSE Gcd(b, a % b)

Frac(n, d) ==
  LET g == Gcd(Abs(n), Abs(d))
      s == IF d < 0 THEN -1 ELSE 1
  IN [n |-> (s * n) \div g, d |-> (s * d) \div g]

Zero == Frac(0, 1)
One == Frac(1, 1)
Pct(p) == Frac(p, 100)

\* common factors are taken out before multiplying, to keep the integers small
FracAdd(x, y) ==
  LET g == Gcd(x.d, y.d)
  IN Frac(x.n * (y.d \div g) + y.n * (x.d \div g), (x.d \div g) * y.d)
FracSub(x, y) == FracAdd(x, [n |-> -y.n, d |-> y.d])
FracMul(x, y) ==
  LET a == Frac(x.n, y.d)
      b == Frac(y.n, x.d)
  IN [n |-> a.n * b.n, d |-> a.d * b.d]
FracDiv(x, y) == FracMul(x, Frac(y.d, y.n))
FracAbs(x) == [n |-> Abs(x.n), d |-> x.d]
Leq(x, y) == x.n * (y.d \div Gcd(x.d, y.d)) <= y.n * (x.d \div Gcd(x.d, y.d))
Less(x, y) == x.n * (y.d \div Gcd(x.d, y.d)) < y.n * (x.d \div Gcd(x.d, y.d))
Geq(x, y) == Leq(y, x)
\* a variant that takes the larger
FracMax(x, y) == IF Less(y, x) THEN x ELSE y

FracMin(x, y) == IF Less(y, x) THEN y ELSE x

(***************************************************************************)
(* Characters and texts                                                    *)
(***************************************************************************)
Undefined == "<undefined>"

UpperCase == <<"A","B","C","D","E","F","G","H","I","J","K","L","M",
               "N","O","P","Q","R","S","T","U","V","W","X","Y","Z">>
LowerCase == <<"a","b","c","d","e","f","g","h","i","j","k","l","m",
               "n","o","p","q","r","s","t","u","v","w","x","y","z">>
Digits == {"0","1","2","3","4","5","6","7","8","9"}
Range(s) == {s[i] : i \in DOMAIN s}
WhiteSpace == {" ", "\t", "\n"}
WordChars == Range(UpperCase) \cup Range(LowerCase) \cup Digits \cup {"_"}

\* String.prototype.toLowerCase, one character
LowerChar(c) ==
  IF c \in Range(UpperCase)
  THEN LowerCase[CHOOSE i \in DOMAIN UpperCase : UpperCase[i] = c]
  ELSE c

toLowerCase(s) == [i \in 1..Len(s) |-> LowerChar(s[i])] \o <<>>

\* the concatenation of the texts ss[lo..hi], in order
RECURSIVE Flatten(_, _, _)
Flatten(ss, lo, hi) ==
  IF lo > hi THEN <<>>
  ELSE IF lo = hi THEN ss[lo]
  ELSE LET mid == (lo + hi) \div 2
       IN Flatten(ss, lo, mid) \o Flatten(ss, mid + 1, hi)

\* s.replace(/[set]/g, to): every character of the set becomes the text `to`
ReplaceChars(s, set, to) ==
  Flatten([i \in 1..Len(s) |-> IF s[i] \in set THEN to ELSE <<s[i]>>], 1, Len(s))

\* s.replace(/\s+/g, ' '): every run of white space becomes one space
CollapseWhiteSpace(s) ==
  Flatten([i \in 1..Len(s) |->
             IF s[i] \notin WhiteSpace THEN <<s[i]>>
             ELSE IF i > 1 /\ s[i-1] \in WhiteSpace THEN <<>>
             ELSE <<" ">>], 1, Len(s))

\* String.prototype.trim
trim(s) ==
  LET keep == {i \in 1..Len(s) : s[i] \notin WhiteSpace}
  IN IF keep = {} THEN <<>>
     ELSE SubSeq(s, CHOOSE i \in keep : \A k \in keep : i <= k,
                    CHOOSE i \in keep : \A k \in keep : i >= k)

\* String.prototype.includes
includes(s, sub) ==
  \E i \in 1..(Len(s) - Len(sub) + 1) : SubSeq(s, i, i + Len(sub) - 1) = sub

\* whether pattern pat, compared without regard to case, occurs in s at i
MatchesAt(s, i, pat) ==
  /\ i >= 1
  /\ i + Len(pat) - 1 <= Len(s)
  /\ \A k \in 1..Len(pat) : LowerChar(s[i + k - 1]) = LowerChar(pat[k])

\* s.replace(new RegExp(from, 'gi'), to) for a literal pattern of one or two
\* characters that cannot overlap itself (every `from` of the OCR table)
ReplaceAllIgnoreCase(s, from, to) ==
  Flatten([i \in 1..Len(s) |->
             IF MatchesAt(s, i, from) THEN to
             ELSE IF Len(from) = 2 /\ MatchesAt(s, i - 1, from) THEN <<>>
             ELSE <<s[i]>>], 1, Len(s))

(***************************************************************************)
(* verification.ts: normalizeText and stringSimilarity                     *)
(***************************************************************************)
SingleQuotes == {"U+2018", "U+2019", "'", "U+0060", "U+00B4"}
DoubleQuotes == {"U+201C", "U+201D"}
EnDash == "U+2013"
EmDash == "U+2014"
Ellipsis == "U+2026"

normalizeText(text) ==
  trim(
    ReplaceChars(
      ReplaceChars(
        ReplaceChars(
          ReplaceChars(
            CollapseWhiteSpace(toLowerCase(text)),
            SingleQuotes, <<"'">>),
          DoubleQuotes, <<"U+0022">>),
        {EnDash}, <<"-">>),
      {Ellipsis}, <<".", ".", ".">>))

Min3(a, b, c) ==
  IF a <= b THEN (IF a <= c THEN a ELSE c) ELSE (IF b <= c THEN b ELSE c)

\* row i of the Levenshtein matrix, columns lo..hi appended to cur (columns
\* 0..lo-1); column j is kept at position j+1
RECURSIVE LevRow(_, _, _, _, _, _, _)
LevRow(s1, s2, i, prev, lo, hi, cur) ==
  IF Len(cur) < lo \/ lo > hi THEN cur
  ELSE IF lo = hi
  THEN Append(cur, Min3(prev[lo + 1] + 1,
                        cur[lo] + 1,
                        prev[lo] + (IF s1[i] = s2[lo] THEN 0 ELSE 1)))
  ELSE LET mid == (lo + hi) \div 2
       IN LevRow(s1, s2, i, prev, mid + 1, hi,
                 LevRow(s1, s2, i, prev, lo, mid, cur))

\* rows lo..hi of the matrix computed in order from row lo-1 (prev); the last
RECURSIVE LevRows(_, _, _, _, _)
LevRows(s1, s2, lo, hi, prev) ==
  IF Len(prev) = 0 \/ lo > hi THEN prev
  ELSE IF lo = hi THEN LevRow(s1, s2, lo, prev, 1, Len(s2), <<lo>>)
  ELSE LET mid == (lo + hi) \div 2
       IN LevRows(s1, s2, mid + 1, hi, LevRows(s1, s2, lo, mid, prev))

\* matrix[s1.length][s2.length]
Levenshtein(s1, s2) ==
  LevRows(s1, s2, 1, Len(s1), [j \in 1..(Len(s2) + 1) |-> j - 1] \o <<>>)[Len(s2) + 1]

Max(a, b) == IF a >= b THEN a ELSE b

\* a variant that divides the distance by the length of the first text
stringSimilarityOverFirstLength(str1, str2) ==
  LET s1 == normalizeText(str1)
      s2 == normalizeText(str2)
  IN IF s1 = s2 THEN One
     ELSE IF Len(s1) = 0 \/ Len(s2) = 0 THEN Zero
     ELSE FracSub(One, Frac(Levenshtein(s1, s2), Len(s1)))

stringSimilarity(str1, str2) ==
  LET s1 == normalizeText(str1)
      s2 == normalizeText(str2)
  IN IF s1 = s2 THEN One
     ELSE IF Len(s1) = 0 \/ Len(s2) = 0 THEN Zero
     ELSE FracSub(One, Frac(Levenshtein(s1, s2), Max(Len(s1), Len(s2))))

(***************************************************************************)
(* constraints.ts: thresholds and the OCR-aware equivalence                *)
(***************************************************************************)
\* Variants of the thresholds below (a neighbouring constant taken by
\* mistake); the properties at the end of the module tell each of them from
\* the value the code uses.
ConfidenceLow == Pct(60)
AutoApprovalAtMedium == Pct(70)
ReviewAtHighSimilarity == Pct(90)

\* CONFIDENCE_THRESHOLDS
ConfidenceMedium == Pct(70)
AutoApprovalMinimum == Pct(85)
HumanReviewThreshold == Pct(75)

\* MATCHING_THRESHOLDS.brandName
ExactMatchThreshold == One
HighSimilarityThreshold == Pct(90)
ReviewThreshold == Pct(70)

\* OCR_ERROR_PATTERNS.characterSubstitutions, in the order of the table
CharacterSubstitutions ==
  << [from |-> <<"0">>, to |-> <<"O">>], [from |-> <<"O">>, to |-> <<"0">>],
     [from |-> <<"1">>, to |-> <<"l">>], [from |-> <<"1">>, to |-> <<"I">>],
     [from |-> <<"l">>, to |-> <<"1">>], [from |-> <<"I">>, to |-> <<"1">>],
     [from |-> <<"5">>, to |-> <<"S">>], [from |-> <<"S">>, to |-> <<"5">>],
     [from |-> <<"8">>, to |-> <<"B">>], [from |-> <<"B">>, to |-> <<"8">>],
     [from |-> <<"r", "n">>, to |-> <<"m">>], [from |-> <<"m">>, to |-> <<"r", "n">>] >>

\* s.replace(/'s\b/g, 's'): an apostrophe before an s that ends a word goes
StripPossessives(s) ==
  Flatten([i \in 1..Len(s) |->
             IF /\ s[i] = "'"
                /\ i < Len(s)
                /\ s[i + 1] = "s"
                /\ (i + 1 = Len(s) \/ s[i + 2] \notin WordChars)
             THEN <<>>
             ELSE <<s[i]>>], 1, Len(s))

normalizeForOcrErrors(text) ==
  StripPossessives(
    ReplaceChars(
      ReplaceChars(
        trim(CollapseWhiteSpace(toLowerCase(text))),
        SingleQuotes, <<"'">>),
      DoubleQuotes, <<"U+0022">>))

\* testStr after the first k substitutions of the table, each applied to the
\* result of the one before it
RECURSIVE SubstitutedUpTo(_, _)
SubstitutedUpTo(norm1, k) ==
  IF k = 0 THEN norm1
  ELSE ReplaceAllIgnoreCase(SubstitutedUpTo(norm1, k - 1),
                            CharacterSubstitutions[k].from,
                            toLowerCase(CharacterSubstitutions[k].to))

areSemanticallySimilar(str1, str2) ==
  LET norm1 == normalizeForOcrErrors(str1)
      norm2 == normalizeForOcrErrors(str2)
  IN \/ norm1 = norm2
     \/ \E k \in 1..Len(CharacterSubstitutions) : SubstitutedUpTo(norm1, k) = norm2

\* Two variants of compareBrandNames: one that accepts only above the high
\* similarity threshold, one that skips the semantic-equivalence check.
compareBrandNamesAboveHigh(applicationName, labelName) ==
  IF areSemanticallySimilar(applicationName, labelName)
  THEN [matches |-> TRUE, confidence |-> One, notes |-> Undefined]
  ELSE LET similarity == stringSimilarity(applicationName, labelName)
       IN IF Geq(similarity, ExactMatchThreshold)
          THEN [matches |-> TRUE, confidence |-> One, notes |-> Undefined]
          ELSE IF Less(HighSimilarityThreshold, similarity)
          THEN [matches |-> TRUE, confidence |-> similarity,
                notes |-> "Minor difference detected"]
          ELSE IF Geq(similarity, ReviewThreshold)
          THEN [matches |-> FALSE, confidence |-> similarity,
                notes |-> "Possible match requiring review"]
          ELSE [matches |-> FALSE, confidence |-> similarity,
                notes |-> "Mismatch"]

compareBrandNamesBySimilarityOnly(applicationName, labelName) ==
  LET similarity == stringSimilarity(applicationName, labelName)
  IN IF Geq(similarity, ExactMatchThreshold)
     THEN [matches |-> TRUE, confidence |-> One, notes |-> Undefined]
     ELSE IF Geq(similarity, HighSimilarityThreshold)
     THEN [matches |-> TRUE, confidence |-> similarity,
           notes |-> "Minor difference detected"]
     ELSE IF Geq(similarity, ReviewThreshold)
     THEN [matches |-> FALSE, confidence |-> similarity,
           notes |-> "Possible match requiring review"]
     ELSE [matches |-> FALSE, confidence |-> similarity,
           notes |-> "Mismatch"]

(***************************************************************************)
(* verification.ts: compareBrandNames                                      *)
(***************************************************************************)
compareBrandNames(applicationName, labelName) ==
  IF areSemanticallySimilar(applicationName, labelName)
  THEN [matches |-> TRUE, confidence |-> One, notes |-> Undefined]
  ELSE LET similarity == stringSimilarity(applicationName, labelName)
       IN IF Geq(similarity, ExactMatchThreshold)
          THEN [matches |-> TRUE, confidence |-> One, notes |-> Undefined]
          ELSE IF Geq(similarity, HighSimilarityThreshold)
          THEN [matches |-> TRUE, confidence |-> similarity,
                notes |-> "Minor difference detected"]
          ELSE IF Geq(similarity, ReviewThreshold)
          THEN [matches |-> FALSE, confidence |-> similarity,
                notes |-> "Possible match requiring review"]
          ELSE [matches |-> FALSE, confidence |-> similarity,
                notes |-> "Mismatch"]

(***************************************************************************)
(* Regular-expression pieces used by the parsers (types/index.ts patterns) *)
(***************************************************************************)
\* the last index of the longest run of characters of `set` that starts at
\* i (i - 1 when there is none): a greedy \d+ or \s*
RunEnd(s, i, set) ==
  CHOOSE j \in (i - 1)..Len(s) :
    /\ \A k \in i..j : s[k] \in set
    /\ (j = Len(s) \/ s[j + 1] \notin set)

IsDigitAt(s, i) == i >= 1 /\ i <= Len(s) /\ s[i] \in Digits

\* the end of (\d+(?:\.\d+)?) matched at i, where s[i] is a digit
NumberEnd(s, i) ==
  LET e1 == RunEnd(s, i, Digits)
  IN IF e1 + 1 <= Len(s) /\ s[e1 + 1] = "." /\ IsDigitAt(s, e1 + 2)
     THEN RunEnd(s, e1 + 2, Digits)
     ELSE e1

DigitValue(c) == CHOOSE v \in 0..9 : <<"0","1","2","3","4","5","6","7","8","9">>[v + 1] = c

RECURSIVE DigitsValue(_)
DigitsValue(ds) ==
  IF Len(ds) = 0 THEN 0
  ELSE 10 * DigitsValue(SubSeq(ds, 1, Len(ds) - 1)) + DigitValue(ds[Len(ds)])

RECURSIVE Pow10(_)
Pow10(k) == IF k = 0 THEN 1 ELSE 10 * Pow10(k - 1)

\* parseFloat of a text matched by \d+(?:\.\d+)?
parseFloat(num) ==
  LET dot == {i \in 1..Len(num) : num[i] = "."}
  IN IF dot = {} THEN Frac(DigitsValue(num), 1)
     ELSE LET p == CHOOSE i \in dot : TRUE
              frac == SubSeq(num, p + 1, Len(num))
          IN Frac(DigitsValue(SubSeq(num, 1, p - 1)) * Pow10(Len(frac)) + DigitsValue(frac),
                  Pow10(Len(frac)))

\* the least element of a non-empty set of indices: the leftmost match
Least(S) == CHOOSE i \in S : \A k \in S : i <= k

\* ALCOHOL_CONTENT_PATTERNS.percentage:
\*   /(\d+(?:\.\d+)?)\s*%\s*(?:alc\.?\/vol\.?|abv|alcohol\s*by\s*volume)/i
PercentQualifierAt(s, i) ==
  \/ /\ MatchesAt(s, i, <<"a","l","c">>)
     /\ \/ MatchesAt(s, i + 3, <<".","/","v","o","l">>)
        \/ MatchesAt(s, i + 3, <<"/","v","o","l">>)
  \/ MatchesAt(s, i, <<"a","b","v">>)
  \/ /\ MatchesAt(s, i, <<"a","l","c","o","h","o","l">>)
     /\ LET b == RunEnd(s, i + 7, WhiteSpace) + 1
        IN /\ MatchesAt(s, b, <<"b","y">>)
           /\ MatchesAt(s, RunEnd(s, b + 2, WhiteSpace) + 1, <<"v","o","l","u","m","e">>)

PercentageMatchesAt(s, i) ==
  /\ IsDigitAt(s, i)
  /\ LET p == RunEnd(s, NumberEnd(s, i) + 1, WhiteSpace) + 1
     IN /\ p <= Len(s)
        /\ s[p] = "%"
        /\ PercentQualifierAt(s, RunEnd(s, p + 1, WhiteSpace) + 1)

\* ALCOHOL_CONTENT_PATTERNS.proof: /(\d+)\s*proof/i
ProofMatchesAt(s, i) ==
  /\ IsDigitAt(s, i)
  /\ MatchesAt(s, RunEnd(s, RunEnd(s, i, Digits) + 1, WhiteSpace) + 1,
               <<"p","r","o","o","f">>)

NoNumber == [n |-> 0, d |-> 0]

\* verification.ts: parseAlcoholContent; null is NoNumber
parseAlcoholContent(content) ==
  LET pm == {i \in 1..Len(content) : PercentageMatchesAt(content, i)}
      fm == {i \in 1..Len(content) : ProofMatchesAt(content, i)}
  IN [percentage |-> IF pm = {} THEN NoNumber
                     ELSE parseFloat(SubSeq(content, Least(pm), NumberEnd(content, Least(pm)))),
      proof |-> IF fm = {} THEN NoNumber
                ELSE Frac(DigitsValue(SubSeq(content, Least(fm),
                                             RunEnd(content, Least(fm), Digits))), 1)]

\* a variant that applies the tighter tolerance from the dividing line on
getAlcoholToleranceFromThreshold(beverageType, abv) ==
  CASE beverageType = "distilled_spirits" ->
         IF Leq(Frac(50, 1), abv) THEN Pct(15) ELSE Pct(30)
    [] beverageType = "wine" ->
         IF Leq(Frac(14, 1), abv) THEN One ELSE Frac(3, 2)
    [] beverageType = "beer" -> Pct(30)
    [] OTHER -> Pct(30)

\* constraints.ts: ALCOHOL_CONTENT_RULES.tolerances and getAlcoholTolerance
getAlcoholTolerance(beverageType, abv) ==
  CASE beverageType = "distilled_spirits" ->
         IF Less(Frac(50, 1), abv) THEN Pct(15) ELSE Pct(30)
    [] beverageType = "wine" ->
         IF Less(Frac(14, 1), abv) THEN One ELSE Frac(3, 2)
    [] beverageType = "beer" -> Pct(30)
    [] OTHER -> Pct(30)

\* verification.ts: compareAlcoholContent
compareAlcoholContent(applicationContent, labelContent, beverageType) ==
  LET appParsed == parseAlcoholContent(applicationContent)
      labelParsed == parseAlcoholContent(labelContent)
  IN IF appParsed.percentage # NoNumber /\ labelParsed.percentage # NoNumber
     THEN LET diff == FracAbs(FracSub(appParsed.percentage, labelParsed.percentage))
              tolerance == getAlcoholTolerance(beverageType, appParsed.percentage)
          IN IF diff = Zero
             THEN [matches |-> TRUE, confidence |-> One, notes |-> Undefined]
             ELSE IF Leq(diff, tolerance)
             THEN [matches |-> TRUE,
                   confidence |-> FracSub(One, FracMul(FracDiv(diff, tolerance), Pct(10))),
                   notes |-> IF Less(Pct(5), diff) THEN "Within TTB tolerance" ELSE Undefined]
             ELSE [matches |-> FALSE, confidence |-> Zero,
                   notes |-> "Alcohol content mismatch"]
     ELSE IF appParsed.proof # NoNumber /\ labelParsed.proof # NoNumber
     THEN LET proofDiff == FracAbs(FracSub(appParsed.proof, labelParsed.proof))
          IN IF proofDiff = Zero
             THEN [matches |-> TRUE, confidence |-> One, notes |-> Undefined]
             ELSE IF Leq(proofDiff, One)
             THEN [matches |-> TRUE, confidence |-> Pct(95),
                   notes |-> "Minor proof difference"]
             ELSE [matches |-> FALSE, confidence |-> Zero, notes |-> "Proof mismatch"]
     ELSE LET similarity == stringSimilarity(applicationContent, labelContent)
          IN [matches |-> Geq(similarity, Pct(90)), confidence |-> similarity,
              notes |-> IF Less(similarity, Pct(90))
                        THEN "Could not parse alcohol content for comparison"
                        ELSE Undefined]

(***************************************************************************)
(* Net contents                                                            *)
(***************************************************************************)
\* NET_CONTENTS_PATTERNS.metric, the unit group (mL|L|ml|l|liters?|milliliters?)
\* under the i flag: the first alternative that matches at i, lower-cased;
\* "" when none does.  "L" matches before "liters?" can.
MetricUnitAt(s, i) ==
  IF MatchesAt(s, i, <<"m","l">>) THEN "ml"
  ELSE IF MatchesAt(s, i, <<"l">>) THEN "l"
  ELSE IF MatchesAt(s, i, <<"m","i","l","l","i","l","i","t","e","r","s">>) THEN "milliliters"
  ELSE IF MatchesAt(s, i, <<"m","i","l","l","i","l","i","t","e","r">>) THEN "milliliter"
  ELSE ""

MetricMatchesAt(s, i) ==
  /\ IsDigitAt(s, i)
  /\ MetricUnitAt(s, RunEnd(s, NumberEnd(s, i) + 1, WhiteSpace) + 1) # ""

\* NET_CONTENTS_PATTERNS.imperial: /(\d+(?:\.\d+)?)\s*(fl\.?\s*oz\.?|oz\.?|ounces?)/i
ImperialUnitAt(s, i) ==
  \/ /\ MatchesAt(s, i, <<"f","l">>)
     /\ LET d == IF MatchesAt(s, i + 2, <<".">>) THEN i + 3 ELSE i + 2
        IN MatchesAt(s, RunEnd(s, d, WhiteSpace) + 1, <<"o","z">>)
  \/ MatchesAt(s, i, <<"o","z">>)
  \/ MatchesAt(s, i, <<"o","u","n","c","e">>)

ImperialMatchesAt(s, i) ==
  /\ IsDigitAt(s, i)
  /\ ImperialUnitAt(s, RunEnd(s, NumberEnd(s, i) + 1, WhiteSpace) + 1)

\* a variant with the imperial fluid ounce
MlPerImperialFlOz == Frac(284131, 10000)

MlPerFlOz == Frac(295735, 10000)

\* verification.ts: parseNetContents; null is NoNumber and "null"
parseNetContents(contents) ==
  LET mm == {i \in 1..Len(contents) : MetricMatchesAt(contents, i)}
      im == {i \in 1..Len(contents) : ImperialMatchesAt(contents, i)}
  IN IF mm # {}
     THEN LET i == Least(mm)
              e == NumberEnd(contents, i)
              unit == MetricUnitAt(contents, RunEnd(contents, e + 1, WhiteSpace) + 1)
              value == parseFloat(SubSeq(contents, i, e))
          IN [value |-> IF unit \in {"l", "liter", "liters"}
                        THEN FracMul(value, Frac(1000, 1)) ELSE value,
              unit |-> "ml"]
     ELSE IF im # {}
     THEN [value |-> parseFloat(SubSeq(contents, Least(im), NumberEnd(contents, Least(im)))),
           unit |-> "fl oz"]
     ELSE [value |-> NoNumber, unit |-> "null"]

\* constraints.ts: NET_CONTENTS_RULES.standardSizes (mL)
StandardSizes(beverageType) ==
  CASE beverageType = "distilled_spirits" -> {50, 100, 200, 375, 750, 1000, 1750}
    [] beverageType = "wine" -> {187, 375, 500, 750, 1000, 1500, 3000}
    [] beverageType = "beer" -> {355, 473, 650, 946}
    [] OTHER -> {}

\* constraints.ts: isStandardFillSize
isStandardFillSize(beverageType, volumeMl) ==
  \E size \in StandardSizes(beverageType) :
    Less(FracAbs(FracSub(Frac(size, 1), volumeMl)), Frac(5, 1))

\* verification.ts: compareNetContents
compareNetContents(applicationContents, labelContents, beverageType) ==
  LET appParsed == parseNetContents(applicationContents)
      labelParsed == parseNetContents(labelContents)
      appMl == IF appParsed.unit = "fl oz"
               THEN FracMul(appParsed.value, MlPerFlOz) ELSE appParsed.value
      labelMl == IF labelParsed.unit = "fl oz"
                 THEN FracMul(labelParsed.value, MlPerFlOz) ELSE labelParsed.value
  IN IF appParsed.value # NoNumber /\ labelParsed.value # NoNumber
     THEN IF appParsed.unit = labelParsed.unit /\ appParsed.value = labelParsed.value
          THEN [matches |-> TRUE, confidence |-> One,
                notes |-> IF ~isStandardFillSize(beverageType, appMl)
                          THEN "Non-standard container size" ELSE Undefined]
          ELSE IF /\ appParsed.unit = labelParsed.unit
                  /\ Leq(FracAbs(FracSub(appParsed.value, labelParsed.value)),
                         FracMul(appParsed.value, Pct(1)))
          THEN [matches |-> TRUE, confidence |-> Pct(95),
                notes |-> "Minor net contents difference"]
          ELSE IF Less(FracAbs(FracSub(appMl, labelMl)), Frac(5, 1))
          THEN [matches |-> TRUE, confidence |-> Pct(90),
                notes |-> "Matched after unit conversion"]
          ELSE [matches |-> FALSE, confidence |-> Zero, notes |-> "Net contents mismatch"]
     ELSE LET similarity == stringSimilarity(applicationContents, labelContents)
          IN [matches |-> Geq(similarity, Pct(90)), confidence |-> similarity,
              notes |-> Undefined]

(***************************************************************************)
(* Values of the program as they appear in the state                       *)
(***************************************************************************)
\* the characters of a text held as a TLA+ string
Chars(str) == [i \in 1..Len(str) |-> SubSeq(str, i, i)] \o <<>>

\* !value of a string | undefined
IsMissing(value) == value = Undefined \/ value = ""

\* a variant that ignores case
MentionsIgnoringCase(str, word) ==
  includes(toLowerCase(Chars(str)), toLowerCase(Chars(word)))

\* str.includes(word) for texts held as strings
Mentions(str, word) == includes(Chars(str), Chars(word))

\* (x * 100).toFixed(0)
PercentFixed0(x) == ToString((200 * x.n + x.d) \div (2 * x.d))

\* (x * 100).toFixed(1)
PercentFixed1(x) ==
  LET tenths == (2000 * x.n + x.d) \div (2 * x.d)
  IN ToString(tenths \div 10) \o "." \o ToString(tenths % 10)

RECURSIVE join(_, _)
join(strs, sep) ==
  IF Len(strs) = 0 THEN ""
  ELSE IF Len(strs) = 1 THEN strs[1]
  ELSE strs[1] \o sep \o join(Tail(strs), sep)

(***************************************************************************)
(* Government warning validation                                           *)
(***************************************************************************)
GOVERNMENT_WARNING_TEXT ==
  "GOVERNMENT WARNING: (1) According to the Surgeon General, women should not drink alcoholic beverages during pregnancy because of the risk of birth defects. (2) Consumption of alcoholic beverages impairs your ability to drive a car or operate machinery, and may cause health problems."

GOVERNMENT_WARNING_REQUIRED_PHRASES ==
  << "government warning", "surgeon general", "women should not drink",
     "pregnancy", "birth defects", "impairs your ability", "drive a car",
     "operate machinery", "health problems" >>

\* constraints.ts: GOVERNMENT_WARNING_RULES.minSimilarity
MinSimilarity == Pct(95)

\* verification.ts: validateGovernmentWarning.  An absent `issues` or
\* `notes` is the empty list and Undefined.
validateGovernmentWarning(warningText) ==
  IF IsMissing(warningText) \/ Len(trim(Chars(warningText))) = 0
  THEN [present |-> FALSE, correct |-> FALSE,
        notes |-> "Government warning not found on label",
        issues |-> <<"Government warning text not found">>]
  ELSE IF ~Mentions(warningText, "GOVERNMENT WARNING:")
  THEN IF includes(toLowerCase(Chars(warningText)), Chars("government warning"))
       THEN LET issue ==
                  IF Mentions(warningText, "Government Warning:")
                  THEN "\"GOVERNMENT WARNING:\" must be in ALL CAPS (found \"Government Warning:\" in title case)"
                  ELSE IF Mentions(warningText, "government warning:")
                  THEN "\"GOVERNMENT WARNING:\" must be in ALL CAPS (found lowercase)"
                  ELSE IF Mentions(warningText, "GOVERNMENT WARNING")
                  THEN "Missing colon after \"GOVERNMENT WARNING\""
                  ELSE "\"GOVERNMENT WARNING:\" must be in ALL CAPS"
            IN [present |-> TRUE, correct |-> FALSE, notes |-> issue, issues |-> <<issue>>]
       ELSE [present |-> FALSE, correct |-> FALSE,
             notes |-> "Government warning prefix not found",
             issues |-> <<"Government warning prefix \"GOVERNMENT WARNING:\" not found">>]
  ELSE LET normalizedWarning == normalizeText(Chars(warningText))
           normalizedRequired == normalizeText(Chars(GOVERNMENT_WARNING_TEXT))
           missingPhrases ==
             SelectSeq(GOVERNMENT_WARNING_REQUIRED_PHRASES,
                       LAMBDA phrase : ~includes(normalizedWarning, toLowerCase(Chars(phrase))))
           issues ==
             IF Len(missingPhrases) > 0
             THEN << "Missing required phrases: "
                     \o join(SubSeq(missingPhrases, 1, IF Len(missingPhrases) < 3
                                                       THEN Len(missingPhrases) ELSE 3), ", ")
                     \o (IF Len(missingPhrases) > 3 THEN "..." ELSE "") >>
             ELSE <<>>
           similarity == stringSimilarity(normalizedWarning, normalizedRequired)
       IN IF Geq(similarity, MinSimilarity)
          THEN [present |-> TRUE, correct |-> TRUE, notes |-> Undefined, issues |-> issues]
          ELSE IF Geq(similarity, Pct(85))
          THEN [present |-> TRUE, correct |-> FALSE,
                notes |-> "Government warning text differs slightly from required text",
                issues |-> Append(issues, "Warning text " \o PercentFixed0(similarity)
                                          \o "% similar to required text")]
          ELSE IF Geq(similarity, Pct(70))
          THEN [present |-> TRUE, correct |-> FALSE,
                notes |-> "Government warning text differs from required text",
                issues |-> Append(issues, "Warning text only " \o PercentFixed0(similarity)
                                          \o "% similar to required text")]
          ELSE [present |-> TRUE, correct |-> FALSE,
                notes |-> "Government warning text significantly differs from required text",
                issues |-> Append(issues, "Warning text significantly different ("
                                          \o PercentFixed0(similarity) \o "% match)")]

(***************************************************************************)
(* Field verification helpers                                              *)
(***************************************************************************)
\* a variant that compares whenever the application has a value
verifyFieldWithoutLabelCheck(fieldName, applicationValue, labelValue, compareFnResult) ==
  IF IsMissing(applicationValue)
  THEN [field |-> fieldName, applicationValue |-> "", labelValue |-> labelValue,
        matches |-> TRUE, confidence |-> One,
        notes |-> "Field not specified in application"]
  ELSE [field |-> fieldName, applicationValue |-> applicationValue,
        labelValue |-> labelValue, matches |-> compareFnResult.matches,
        confidence |-> compareFnResult.confidence, notes |-> compareFnResult.notes]

\* verification.ts: verifyField; compareFnResult stands for
\* compareFn(applicationValue, labelValue), which is looked at only when both
\* values are present
verifyField(fieldName, applicationValue, labelValue, compareFnResult) ==
  IF IsMissing(applicationValue)
  THEN [field |-> fieldName, applicationValue |-> "", labelValue |-> labelValue,
        matches |-> TRUE, confidence |-> One,
        notes |-> "Field not specified in application"]
  ELSE IF IsMissing(labelValue)
  THEN [field |-> fieldName, applicationValue |-> applicationValue,
        labelValue |-> Undefined, matches |-> FALSE, confidence |-> Zero,
        notes |-> "Field not found on label"]
  ELSE LET result == compareFnResult
       IN [field |-> fieldName, applicationValue |-> applicationValue,
           labelValue |-> labelValue, matches |-> result.matches,
           confidence |-> result.confidence, notes |-> result.notes]

\* verification.ts: compareStrings
compareStrings(app, label, threshold) ==
  LET similarity == stringSimilarity(app, label)
  IN [matches |-> Geq(similarity, threshold), confidence |-> similarity,
      notes |-> IF Less(similarity, threshold) THEN "Values differ" ELSE Undefined]

(***************************************************************************)
(* The requests considered: the application fixtures of the test suite and *)
(* the labels an extraction can report for them                            *)
(***************************************************************************)
\* how many fields of an extraction differ from the faithful label
MaxDeviations == 2

CompareFields ==
  << "brandName", "classType", "alcoholContent", "netContents", "producerName",
     "countryOfOrigin", "vintageYear", "appellation" >>

ExtractedFields ==
  CompareFields \o << "governmentWarning", "governmentWarningDetails", "imageQuality" >>

\* __tests__/verification.test.ts: baseApplicationData
baseApplicationData ==
  [brandName |-> "OLD TOM DISTILLERY", classType |-> "Kentucky Straight Bourbon Whiskey",
   beverageType |-> "distilled_spirits", alcoholContent |-> "45% Alc./Vol.",
   netContents |-> "750 mL", producerName |-> "Old Tom Distilling Co.",
   countryOfOrigin |-> "United States", vintageYear |-> Undefined,
   appellation |-> Undefined]

\* __tests__/verification.test.ts: wineApplicationData
wineApplicationData ==
  [brandName |-> "VALLEY OAKS", classType |-> "Cabernet Sauvignon",
   beverageType |-> "wine", alcoholContent |-> "14.5% Alc./Vol.",
   netContents |-> "750 mL", producerName |-> "Valley Oaks Winery",
   countryOfOrigin |-> "United States", vintageYear |-> "2019",
   appellation |-> "Napa Valley"]

\* an application with no country of origin and a container that is not a
\* standard fill size (the Performance fixture, bottled at 700 mL)
oddSizeApplicationData ==
  [brandName |-> "TEST BRAND", classType |-> "Test Type",
   beverageType |-> "distilled_spirits", alcoholContent |-> "40% Alc./Vol.",
   netContents |-> "700 mL", producerName |-> "Test Producer",
   countryOfOrigin |-> Undefined, vintageYear |-> Undefined,
   appellation |-> Undefined]

Applications == {baseApplicationData, wineApplicationData, oddSizeApplicationData}

\* label warnings: the prefix in title case, the last clause missing, the
\* second sentence missing, the final full stop missing
TitleCaseWarning ==
  "Government Warning: (1) According to the Surgeon General, women should not drink alcoholic beverages during pregnancy because of the risk of birth defects. (2) Consumption of alcoholic beverages impairs your ability to drive a car or operate machinery, and may cause health problems."

ClauseMissingWarning ==
  "GOVERNMENT WARNING: (1) According to the Surgeon General, women should not drink alcoholic beverages during pregnancy because of the risk of birth defects. (2) Consumption of alcoholic beverages impairs your ability to drive a car or operate machinery."

SentenceMissingWarning ==
  "GOVERNMENT WARNING: (1) According to the Surgeon General, women should not drink alcoholic beverages during pregnancy because of the risk of birth defects."

UnterminatedWarning ==
  "GOVERNMENT WARNING: (1) According to the Surgeon General, women should not drink alcoholic beverages during pregnancy because of the risk of birth defects. (2) Consumption of alcoholic beverages impairs your ability to drive a car or operate machinery, and may cause health problems"

WarningTexts ==
  {GOVERNMENT_WARNING_TEXT, TitleCaseWarning, ClauseMissingWarning,
   SentenceMissingWarning, UnterminatedWarning}

\* a warning with one letter wrong in a required phrase
MisspeltWarning ==
  "GOVERNMENT WARNING: (1) According to the Surgeon General, women should not drink alcoholic beverages during pregnency because of the risk of birth defects. (2) Consumption of alcoholic beverages impairs your ability to drive a car or operate machinery, and may cause health problems."

\* further warnings, given to the library directly
OtherWarningTexts == {MisspeltWarning}

\* GovernmentWarningDetails as transformToExtractedData builds them
WarningDetails(prefixInAllCaps, appearsBold, textComplete, issues) ==
  [prefixInAllCaps |-> prefixInAllCaps, appearsBold |-> appearsBold,
   textComplete |-> textComplete, issues |-> issues]

\* ImageQualityAssessment as transformToExtractedData builds it
ImageQuality(overallScore, issues, recommendResubmit) ==
  [overallScore |-> overallScore, issues |-> issues,
   recommendResubmit |-> recommendResubmit]

\* the label that shows exactly what the application declares, read from a
\* good image
Faithful(applicationData) ==
  [f \in Range(CompareFields) |-> applicationData[f]] @@
  [governmentWarning |-> GOVERNMENT_WARNING_TEXT,
   governmentWarningDetails |-> <<WarningDetails(TRUE, "true", TRUE, <<>>)>>,
   imageQuality |-> <<ImageQuality(Pct(90), <<>>, FALSE)>>]

\* what an extraction may report in place of the faithful value of a field
Alternatives(applicationData) ==
  ( IF applicationData = baseApplicationData
    THEN [brandName |-> {"OLD TOM'S DISTILLERY", "OLD TOM DISTILLERIES", "JACK DANIELS",
                         Undefined},
          classType |-> {"Kentucky Straight Bourbon Whisky", "Kentucky Bourbon Whiskey",
                         "Vodka"},
          alcoholContent |-> {"45.2% Alc./Vol.", "40% Alc./Vol."},
          netContents |-> {"0.75 L", "25.4 fl oz", "700 mL"},
          producerName |-> {"Old Tom Distilling Company", "Old Tom Distillery",
                            "Acme Spirits Inc."},
          countryOfOrigin |-> {"United States of America", Undefined},
          vintageYear |-> {}, appellation |-> {}]
    ELSE IF applicationData = wineApplicationData
    THEN [brandName |-> {"VALLEY OAK", "VALEY OAK"},
          classType |-> {"Cabernet Franc"},
          alcoholContent |-> {"15.0% Alc./Vol.", "13% Alc./Vol."},
          netContents |-> {"750ml"},
          producerName |-> {"Valley Oaks Vineyards"},
          countryOfOrigin |-> {},
          vintageYear |-> {"2020"},
          appellation |-> {"Napa Valley AVA", "Sonoma Valley"}]
    ELSE [brandName |-> {"TEST BRANDS", "BEST BRAND"},
          classType |-> {},
          alcoholContent |-> {"80 Proof"},
          netContents |-> {"0.7 L"},
          producerName |-> {Undefined},
          countryOfOrigin |-> {"Mexico"},
          vintageYear |-> {}, appellation |-> {}] ) @@
  [governmentWarning |-> (WarningTexts \ {GOVERNMENT_WARNING_TEXT}) \cup {Undefined},
   governmentWarningDetails |->
     { <<>>,
       <<WarningDetails(FALSE, "true", TRUE, <<>>)>>,
       <<WarningDetails(TRUE, "false", TRUE, <<>>)>>,
       <<WarningDetails(TRUE, "null", FALSE, <<"Warning text is partially obscured">>)>> },
   imageQuality |->
     { <<>>,
       <<ImageQuality(Pct(40), <<"blur", "glare">>, TRUE)>>,
       <<ImageQuality(Pct(60), <<"poor_lighting">>, FALSE)>> }]

\* the faithful label changed in at most `budget` of the listed fields
RECURSIVE Perturbed(_, _, _, _)
Perturbed(label, alternatives, fields, budget) ==
  IF Len(fields) = 0 \/ budget = 0 THEN {label}
  ELSE Perturbed(label, alternatives, Tail(fields), budget)
       \cup UNION { Perturbed([label EXCEPT ![Head(fields)] = v], alternatives,
                              Tail(fields), budget - 1)
                    : v \in alternatives[Head(fields)] }

Labels(applicationData) ==
  Perturbed(Faithful(applicationData), Alternatives(applicationData),
            ExtractedFields, MaxDeviations)

\* extractedData.confidence as the model reports it
Confidences == {Pct(50), Pct(70), Pct(75), Pct(85), Pct(95)}

\* elapsed extraction times, in ms: at the target and just past it
ProcessingTimes == {5000, 5001}

(***************************************************************************)
(* The comparators are pure and slow to evaluate, so their results on the  *)
(* texts above are tabulated once; Cached looks a result up and falls back *)
(* on the computation for any other text.                                  *)
(***************************************************************************)
Cached(table, key, value) == IF key \in DOMAIN table THEN table[key] ELSE value

\* the (application text, label text) pairs of a field
FieldTexts(f) ==
  UNION { { <<applicationData[f], l, applicationData.beverageType>>
            : l \in ({applicationData[f]} \cup Alternatives(applicationData)[f])
                    \ {Undefined} }
          : applicationData \in {a \in Applications : a[f] # Undefined} }

BrandNameResults ==
  [q \in FieldTexts("brandName") |-> compareBrandNames(Chars(q[1]), Chars(q[2]))]

AlcoholContentResults ==
  [q \in FieldTexts("alcoholContent") |->
     compareAlcoholContent(Chars(q[1]), Chars(q[2]), q[3])]

NetContentsResults ==
  [q \in FieldTexts("netContents") |-> compareNetContents(Chars(q[1]), Chars(q[2]), q[3])]

ClassTypeResults ==
  [q \in FieldTexts("classType") |-> compareStrings(Chars(q[1]), Chars(q[2]), Pct(85))]

ProducerNameResults ==
  [q \in FieldTexts("producerName") |-> compareStrings(Chars(q[1]), Chars(q[2]), Pct(80))]

CountryOfOriginResults ==
  [q \in FieldTexts("countryOfOrigin") |->
     compareStrings(Chars(q[1]), Chars(q[2]), Pct(90))]

AppellationResults ==
  [q \in FieldTexts("appellation") |-> compareStrings(Chars(q[1]), Chars(q[2]), Pct(85))]

WarningResults ==
  [w \in WarningTexts \cup OtherWarningTexts |-> validateGovernmentWarning(w)]

WarningSimilarities ==
  [w \in WarningTexts \cup OtherWarningTexts |-> stringSimilarity(normalizeText(Chars(w)),
                                           normalizeText(Chars(GOVERNMENT_WARNING_TEXT)))]

\* the issues of the AI's warning details that validateGovernmentWarningEnhanced
\* appends: those not already listed
NotListed(issues, more) == SelectSeq(more, LAMBDA i : i \notin Range(issues))

\* a variant that also wants the warning on a contrasting background
EnhancedIssuesOnBackground(issues, warningDetails) ==
  LET merged ==
        issues
        \o (IF /\ ~warningDetails.prefixInAllCaps
               /\ ~\E i \in Range(issues) : Mentions(i, "ALL CAPS")
            THEN <<"\"GOVERNMENT WARNING:\" prefix not in ALL CAPS">> ELSE <<>>)
        \o (IF warningDetails.appearsBold = "false"
            THEN <<"\"GOVERNMENT WARNING:\" should be in bold type (flagged for review)">>
            ELSE <<>>)
        \o (IF /\ "onContrastingBackground" \in DOMAIN warningDetails
               /\ warningDetails.onContrastingBackground = "false"
            THEN <<"Government warning is not on a contrasting background">> ELSE <<>>)
        \o (IF ~warningDetails.textComplete
            THEN <<"Government warning text appears incomplete">> ELSE <<>>)
  IN merged \o NotListed(merged, warningDetails.issues)

\* verification.ts: validateGovernmentWarningEnhanced, lines 470-490: the
\* issues after the AI's details have been merged into those of the text
\* validation
EnhancedIssues(issues, warningDetails) ==
  LET merged ==
        issues
        \o (IF /\ ~warningDetails.prefixInAllCaps
               /\ ~\E i \in Range(issues) : Mentions(i, "ALL CAPS")
            THEN <<"\"GOVERNMENT WARNING:\" prefix not in ALL CAPS">> ELSE <<>>)
        \o (IF warningDetails.appearsBold = "false"
            THEN <<"\"GOVERNMENT WARNING:\" should be in bold type (flagged for review)">>
            ELSE <<>>)
        \o (IF ~warningDetails.textComplete
            THEN <<"Government warning text appears incomplete">> ELSE <<>>)
  IN merged \o NotListed(merged, warningDetails.issues)

\* a variant that takes the verdict of the text validation alone
EnhancedResultOfTextAlone(basicResult, issues, similarity) ==
  [present |-> basicResult.present,
   correct |-> basicResult.correct,
   issues |-> issues,
   confidence |-> similarity]

\* lines 493-503: the result for a warning that is present
EnhancedResult(basicResult, issues, similarity) ==
  [present |-> basicResult.present,
   correct |-> basicResult.correct /\ Len(issues) = 0,
   issues |-> issues,
   confidence |-> similarity]

\* lines 455-503, given the text validation (basicResult) and the similarity
\* of the text to the required one
Enhanced(basicResult, governmentWarningDetails, similarity) ==
  IF ~basicResult.present
  THEN [present |-> FALSE, correct |-> FALSE,
        issues |-> IF Len(basicResult.issues) > 0 THEN basicResult.issues
                   ELSE <<"Government warning not found">>,
        confidence |-> Zero]
  ELSE EnhancedResult(basicResult,
                      IF Len(governmentWarningDetails) = 0 THEN basicResult.issues
                      ELSE EnhancedIssues(basicResult.issues, governmentWarningDetails[1]),
                      similarity)

\* verification.ts: validateGovernmentWarningEnhanced.  The optional
\* governmentWarningDetails is a list of at most one record; appearsBold is
\* "true", "false" or "null".
validateGovernmentWarningEnhanced(extractedData) ==
  Enhanced(Cached(WarningResults, extractedData.governmentWarning,
                  validateGovernmentWarning(extractedData.governmentWarning)),
           extractedData.governmentWarningDetails,
           Cached(WarningSimilarities, extractedData.governmentWarning,
                  stringSimilarity(normalizeText(Chars(extractedData.governmentWarning)),
                                   normalizeText(Chars(GOVERNMENT_WARNING_TEXT)))))

(***************************************************************************)
(* The main verification function                                          *)
(***************************************************************************)
\* constraints.ts: PROCESSING_CONSTRAINTS.targetTimeMs
TargetTimeMs == 5000

\* s.filter(f => f.matches).length
RECURSIVE CountMatches(_)
CountMatches(fvs) ==
  IF Len(fvs) = 0 THEN 0
  ELSE (IF fvs[1].matches THEN 1 ELSE 0) + CountMatches(Tail(fvs))

\* s.reduce((sum, f) => sum + f.confidence, 0)
RECURSIVE SumConfidence(_)
SumConfidence(fvs) ==
  IF Len(fvs) = 0 THEN Zero
  ELSE FracAdd(SumConfidence(SubSeq(fvs, 1, Len(fvs) - 1)), fvs[Len(fvs)].confidence)

\* fieldVerifications.find(f => f.field === name); a list of at most one
find(fvs, name) ==
  LET at == {i \in 1..Len(fvs) : fvs[i].field = name}
  IN IF at = {} THEN <<>> ELSE <<fvs[Least(at)]>>

\* A variant of the critical failures below that leaves the alcohol content
\* out.
CriticalFailuresWithoutAlcohol(warningValidation, fieldVerifications) ==
  LET brand == find(fieldVerifications, "Brand Name")
  IN << ~warningValidation.present,
        ~warningValidation.correct /\ Less(warningValidation.confidence, Pct(85)),
        /\ ~(Len(brand) > 0 /\ brand[1].matches)
        /\ Less(IF Len(brand) > 0 THEN brand[1].confidence ELSE Zero, ReviewThreshold),
        FALSE >>

\* verification.ts: verifyLabel, lines 782-788: the critical failures that
\* prevent approval
CriticalFailures(warningValidation, fieldVerifications) ==
  LET brand == find(fieldVerifications, "Brand Name")
      alcohol == find(fieldVerifications, "Alcohol Content")
  IN << ~warningValidation.present,
        ~warningValidation.correct /\ Less(warningValidation.confidence, Pct(85)),
        /\ ~(Len(brand) > 0 /\ brand[1].matches)
        /\ Less(IF Len(brand) > 0 THEN brand[1].confidence ELSE Zero, ReviewThreshold),
        ~(Len(alcohol) > 0 /\ alcohol[1].matches) >>

\* Variants of the approval test: a strict comparison, and a comparison the
\* wrong way round.
AutoApprovalAbove(matchedFields, totalFields, warningValidation, overallConfidence, humanReviewReasons) ==
  /\ matchedFields = totalFields
  /\ warningValidation.correct
  /\ Less(AutoApprovalMinimum, overallConfidence)
  /\ Len(humanReviewReasons) = 0

AutoApprovalUpTo(matchedFields, totalFields, warningValidation, overallConfidence, humanReviewReasons) ==
  /\ matchedFields = totalFields
  /\ warningValidation.correct
  /\ Leq(overallConfidence, AutoApprovalMinimum)
  /\ Len(humanReviewReasons) = 0

\* verification.ts: verifyLabel, lines 803-808: a perfect match with high
\* confidence and no review triggers
AutoApproval(matchedFields, totalFields, warningValidation, overallConfidence, humanReviewReasons) ==
  /\ matchedFields = totalFields
  /\ warningValidation.correct
  /\ Geq(overallConfidence, AutoApprovalMinimum)
  /\ Len(humanReviewReasons) = 0

\* A variant of the review test that forgets the confidence threshold.
FlagForReviewOnReasons(overallConfidence, humanReviewReasons) ==
  Len(humanReviewReasons) > 0

\* verification.ts: verifyLabel, lines 811-814: flag for human review
FlagForReview(overallConfidence, humanReviewReasons) ==
  Less(overallConfidence, HumanReviewThreshold) \/ Len(humanReviewReasons) > 0

\* verification.ts: verifyLabel, line 823: most fields match
MostFieldsMatch(matchedFields, totalFields, warningValidation) ==
  /\ Geq(Frac(matchedFields, 1), FracMul(Frac(totalFields, 1), Pct(80)))
  /\ warningValidation.correct

\* verification.ts: verifyLabel, lines 592-727: the field verifications in the
\* order they are pushed
FieldVerifications(applicationData, extractedData) ==
  << verifyField("Brand Name", applicationData.brandName, extractedData.brandName,
       Cached(BrandNameResults,
              <<applicationData.brandName, extractedData.brandName,
                applicationData.beverageType>>,
              compareBrandNames(Chars(applicationData.brandName),
                                Chars(extractedData.brandName)))),
     verifyField("Class/Type", applicationData.classType, extractedData.classType,
       Cached(ClassTypeResults,
              <<applicationData.classType, extractedData.classType,
                applicationData.beverageType>>,
              compareStrings(Chars(applicationData.classType),
                             Chars(extractedData.classType), Pct(85)))),
     verifyField("Alcohol Content", applicationData.alcoholContent,
                 extractedData.alcoholContent,
       Cached(AlcoholContentResults,
              <<applicationData.alcoholContent, extractedData.alcoholContent,
                applicationData.beverageType>>,
              compareAlcoholContent(Chars(applicationData.alcoholContent),
                                    Chars(extractedData.alcoholContent),
                                    applicationData.beverageType))),
     verifyField("Net Contents", applicationData.netContents, extractedData.netContents,
       Cached(NetContentsResults,
              <<applicationData.netContents, extractedData.netContents,
                applicationData.beverageType>>,
              compareNetContents(Chars(applicationData.netContents),
                                 Chars(extractedData.netContents),
                                 applicationData.beverageType))),
     verifyField("Producer Name", applicationData.producerName,
                 extractedData.producerName,
       Cached(ProducerNameResults,
              <<applicationData.producerName, extractedData.producerName,
                applicationData.beverageType>>,
              compareStrings(Chars(applicationData.producerName),
                             Chars(extractedData.producerName), Pct(80)))) >>
  \o (IF ~IsMissing(applicationData.countryOfOrigin)
      THEN << verifyField("Country of Origin", applicationData.countryOfOrigin,
                          extractedData.countryOfOrigin,
                Cached(CountryOfOriginResults,
                       <<applicationData.countryOfOrigin, extractedData.countryOfOrigin,
                         applicationData.beverageType>>,
                       compareStrings(Chars(applicationData.countryOfOrigin),
                                      Chars(extractedData.countryOfOrigin), Pct(90)))) >>
      ELSE <<>>)
  \o (IF applicationData.beverageType = "wine" /\ ~IsMissing(applicationData.vintageYear)
      THEN << verifyField("Vintage Year", applicationData.vintageYear,
                          extractedData.vintageYear,
                [matches |-> applicationData.vintageYear = extractedData.vintageYear,
                 confidence |-> IF applicationData.vintageYear = extractedData.vintageYear
                                THEN One ELSE Zero,
                 notes |-> IF applicationData.vintageYear # extractedData.vintageYear
                           THEN "Vintage year mismatch" ELSE Undefined]) >>
      ELSE <<>>)
  \o (IF applicationData.beverageType = "wine" /\ ~IsMissing(applicationData.appellation)
      THEN << verifyField("Appellation", applicationData.appellation,
                          extractedData.appellation,
                Cached(AppellationResults,
                       <<applicationData.appellation, extractedData.appellation,
                         applicationData.beverageType>>,
                       compareStrings(Chars(applicationData.appellation),
                                      Chars(extractedData.appellation), Pct(85)))) >>
      ELSE <<>>)

\* a field verification failed: it was made and does not match
Failed(verification) == Len(verification) > 0 /\ ~verification[1].matches

\* a variant that converts the millilitres instead of the fluid ounces
NonStandardSizeConvertingMl(applicationData, parsed) ==
  /\ ~IsMissing(applicationData.netContents)
  /\ parsed.value # NoNumber
  /\ parsed.value # Zero
  /\ ~isStandardFillSize(applicationData.beverageType,
                         IF parsed.unit = "ml" THEN FracMul(parsed.value, MlPerFlOz)
                         ELSE parsed.value)

\* lines 652-661: the declared container is not a standard fill size
NonStandardSize(applicationData, parsed) ==
  /\ ~IsMissing(applicationData.netContents)
  /\ parsed.value # NoNumber
  /\ parsed.value # Zero
  /\ ~isStandardFillSize(applicationData.beverageType,
                         IF parsed.unit = "fl oz" THEN FracMul(parsed.value, MlPerFlOz)
                         ELSE parsed.value)

\* lines 738-741: a warning that is present and incorrect, but close to the
\* required text
WarningReview(warningValidation) ==
  /\ warningValidation.present
  /\ ~warningValidation.correct
  /\ Geq(warningValidation.confidence, Pct(85))

\* a variant that does not flag the net contents
FlaggedIssuesButNetContents(brand, class, alcohol, net, producer, country, vintage, warningValidation) ==
  (IF Failed(brand) /\ ~Geq(brand[1].confidence, ReviewThreshold)
   THEN <<"Brand name mismatch">> ELSE <<>>)
  \o (IF Failed(class) /\ ~Geq(class[1].confidence, Pct(70))
      THEN <<"Class/type mismatch">> ELSE <<>>)
  \o (IF Failed(alcohol) THEN <<"Alcohol content mismatch">> ELSE <<>>)
  \o (IF Failed(producer) /\ ~Geq(producer[1].confidence, Pct(60))
      THEN <<"Producer name mismatch">> ELSE <<>>)
  \o (IF Failed(country) THEN <<"Country of origin mismatch">> ELSE <<>>)
  \o (IF Failed(vintage) THEN <<"Vintage year mismatch">> ELSE <<>>)
  \o (IF ~warningValidation.present THEN <<"Government warning not present">>
      ELSE IF warningValidation.correct THEN <<>>
      ELSE IF WarningReview(warningValidation)
      THEN <<"Government warning format/text issue">>
      ELSE <<"Government warning format/text incorrect">>)

\* flaggedIssues in the order they are pushed
FlaggedIssues(brand, class, alcohol, net, producer, country, vintage, warningValidation) ==
  (IF Failed(brand) /\ ~Geq(brand[1].confidence, ReviewThreshold)
   THEN <<"Brand name mismatch">> ELSE <<>>)
  \o (IF Failed(class) /\ ~Geq(class[1].confidence, Pct(70))
      THEN <<"Class/type mismatch">> ELSE <<>>)
  \o (IF Failed(alcohol) THEN <<"Alcohol content mismatch">> ELSE <<>>)
  \o (IF Failed(net) THEN <<"Net contents mismatch">> ELSE <<>>)
  \o (IF Failed(producer) /\ ~Geq(producer[1].confidence, Pct(60))
      THEN <<"Producer name mismatch">> ELSE <<>>)
  \o (IF Failed(country) THEN <<"Country of origin mismatch">> ELSE <<>>)
  \o (IF Failed(vintage) THEN <<"Vintage year mismatch">> ELSE <<>>)
  \o (IF ~warningValidation.present THEN <<"Government warning not present">>
      ELSE IF warningValidation.correct THEN <<>>
      ELSE IF WarningReview(warningValidation)
      THEN <<"Government warning format/text issue">>
      ELSE <<"Government warning format/text incorrect">>)

\* a variant that takes a score of 0.70 for a low one
ReviewReasonsUpToLowScore(applicationData, imageQuality, brand, class, producer, appellation, warningValidation) ==
  (IF Failed(brand) /\ Geq(brand[1].confidence, ReviewThreshold)
   THEN << "Brand name requires review: similar but not exact match ("
           \o PercentFixed0(brand[1].confidence) \o "% similar)" >>
   ELSE <<>>)
  \o (IF Failed(class) /\ Geq(class[1].confidence, Pct(70))
      THEN <<"Class/type requires review">> ELSE <<>>)
  \o (IF NonStandardSize(applicationData,
                         parseNetContents(Chars(applicationData.netContents)))
      THEN <<"Non-standard container size: " \o applicationData.netContents>>
      ELSE <<>>)
  \o (IF Failed(producer) /\ Geq(producer[1].confidence, Pct(60))
      THEN <<"Producer name requires review">> ELSE <<>>)
  \o (IF Failed(appellation) THEN <<"Appellation requires review">> ELSE <<>>)
  \o (IF WarningReview(warningValidation)
      THEN <<"Government warning requires review: minor formatting issues">>
      ELSE <<>>)
  \o (IF Len(imageQuality) = 0 THEN <<>>
      ELSE IF imageQuality[1].recommendResubmit
      THEN <<"Image quality issues: " \o join(imageQuality[1].issues, ", ")>>
      ELSE IF Len(imageQuality[1].issues) > 0
              /\ Leq(imageQuality[1].overallScore, Pct(70))
      THEN << "Low image quality may affect accuracy ("
              \o PercentFixed0(imageQuality[1].overallScore) \o "%)" >>
      ELSE <<>>)

\* humanReviewReasons, in the order they are pushed, before the status is
\* decided
ReviewReasons(applicationData, imageQuality, brand, class, producer, appellation, warningValidation) ==
  (IF Failed(brand) /\ Geq(brand[1].confidence, ReviewThreshold)
   THEN << "Brand name requires review: similar but not exact match ("
           \o PercentFixed0(brand[1].confidence) \o "% similar)" >>
   ELSE <<>>)
  \o (IF Failed(class) /\ Geq(class[1].confidence, Pct(70))
      THEN <<"Class/type requires review">> ELSE <<>>)
  \o (IF NonStandardSize(applicationData,
                         parseNetContents(Chars(applicationData.netContents)))
      THEN <<"Non-standard container size: " \o applicationData.netContents>>
      ELSE <<>>)
  \o (IF Failed(producer) /\ Geq(producer[1].confidence, Pct(60))
      THEN <<"Producer name requires review">> ELSE <<>>)
  \o (IF Failed(appellation) THEN <<"Appellation requires review">> ELSE <<>>)
  \o (IF WarningReview(warningValidation)
      THEN <<"Government warning requires review: minor formatting issues">>
      ELSE <<>>)
  \o (IF Len(imageQuality) = 0 THEN <<>>
      ELSE IF imageQuality[1].recommendResubmit
      THEN <<"Image quality issues: " \o join(imageQuality[1].issues, ", ")>>
      ELSE IF Len(imageQuality[1].issues) > 0
              /\ Less(imageQuality[1].overallScore, Pct(70))
      THEN << "Low image quality may affect accuracy ("
              \o PercentFixed0(imageQuality[1].overallScore) \o "%)" >>
      ELSE <<>>)

\* a variant that sends a label to review for low confidence without saying so
DecisionWithoutLowConfidenceReason(hasCriticalFailure, matchedFields, totalFields, warningValidation, overallConfidence, humanReviewReasons) ==
  IF hasCriticalFailure
  THEN IF Geq(overallConfidence, ConfidenceMedium) /\ Len(humanReviewReasons) > 0
       THEN [status |-> "needs_review", review |-> TRUE,
             more |-> IF ~\E r \in Range(humanReviewReasons) : Mentions(r, "Critical")
                      THEN <<"Critical fields may have issues but confidence is moderate">>
                      ELSE <<>>]
       ELSE [status |-> "rejected", review |-> Len(humanReviewReasons) > 0,
             more |-> <<>>]
  ELSE IF AutoApproval(matchedFields, totalFields, warningValidation,
                       overallConfidence, humanReviewReasons)
  THEN [status |-> "approved", review |-> Len(humanReviewReasons) > 0, more |-> <<>>]
  ELSE IF FlagForReview(overallConfidence, humanReviewReasons)
  THEN [status |-> "needs_review", review |-> TRUE,
        more |-> <<>>]
  ELSE IF MostFieldsMatch(matchedFields, totalFields, warningValidation)
  THEN [status |-> "needs_review", review |-> TRUE,
        more |-> <<"Some fields require human verification">>]
  ELSE [status |-> "rejected", review |-> Len(humanReviewReasons) > 0, more |-> <<>>]

\* lines 778-830: the status, whether human review is required, and the
\* reasons the decision appends
Decision(hasCriticalFailure, matchedFields, totalFields, warningValidation, overallConfidence, humanReviewReasons) ==
  IF hasCriticalFailure
  THEN IF Geq(overallConfidence, ConfidenceMedium) /\ Len(humanReviewReasons) > 0
       THEN [status |-> "needs_review", review |-> TRUE,
             more |-> IF ~\E r \in Range(humanReviewReasons) : Mentions(r, "Critical")
                      THEN <<"Critical fields may have issues but confidence is moderate">>
                      ELSE <<>>]
       ELSE [status |-> "rejected", review |-> Len(humanReviewReasons) > 0,
             more |-> <<>>]
  ELSE IF AutoApproval(matchedFields, totalFields, warningValidation,
                       overallConfidence, humanReviewReasons)
  THEN [status |-> "approved", review |-> Len(humanReviewReasons) > 0, more |-> <<>>]
  ELSE IF FlagForReview(overallConfidence, humanReviewReasons)
  THEN [status |-> "needs_review", review |-> TRUE,
        more |-> IF /\ Less(overallConfidence, HumanReviewThreshold)
                    /\ ~\E r \in Range(humanReviewReasons) : Mentions(r, "confidence")
                 THEN <<"Low confidence score: " \o PercentFixed1(overallConfidence)
                        \o "%">>
                 ELSE <<>>]
  ELSE IF MostFieldsMatch(matchedFields, totalFields, warningValidation)
  THEN [status |-> "needs_review", review |-> TRUE,
        more |-> <<"Some fields require human verification">>]
  ELSE [status |-> "rejected", review |-> Len(humanReviewReasons) > 0, more |-> <<>>]

\* lines 837-859: the result returned
VerificationResult(extractedData, processingTimeMs, fieldVerifications, warningValidation, flaggedIssues, humanReviewReasons, overallConfidence, decision) ==
  [status |-> decision.status,
   overallConfidence |-> overallConfidence,
   processingTimeMs |-> processingTimeMs,
   fieldVerifications |-> fieldVerifications,
   governmentWarningPresent |-> warningValidation.present,
   governmentWarningCorrect |-> warningValidation.correct,
   governmentWarningNotes |-> IF Len(warningValidation.issues) > 0
                              THEN warningValidation.issues[1] ELSE Undefined,
   governmentWarningIssues |-> warningValidation.issues,
   extractedData |-> extractedData,
   matchedFields |-> CountMatches(fieldVerifications),
   totalFields |-> Len(fieldVerifications),
   flaggedIssues |-> flaggedIssues,
   requiresHumanReview |-> decision.review,
   humanReviewReasons |-> humanReviewReasons \o decision.more,
   meetsTargetTime |-> processingTimeMs <= TargetTimeMs]

\* lines 764-830, given the issues and reasons collected
Decided(extractedData, processingTimeMs, fieldVerifications, warningValidation, flaggedIssues, humanReviewReasons, overallConfidence) ==
  VerificationResult(extractedData, processingTimeMs, fieldVerifications,
                     warningValidation, flaggedIssues, humanReviewReasons,
                     overallConfidence,
    Decision(\E failure \in Range(CriticalFailures(warningValidation, fieldVerifications)) :
               failure,
             CountMatches(fieldVerifications), Len(fieldVerifications),
             warningValidation, overallConfidence, humanReviewReasons))

\* lines 592-830, given the field verifications and the warning validation
Compared(applicationData, extractedData, processingTimeMs, fieldVerifications, warningValidation) ==
  Decided(extractedData, processingTimeMs, fieldVerifications, warningValidation,
    FlaggedIssues(find(fieldVerifications, "Brand Name"),
                  find(fieldVerifications, "Class/Type"),
                  find(fieldVerifications, "Alcohol Content"),
                  find(fieldVerifications, "Net Contents"),
                  find(fieldVerifications, "Producer Name"),
                  find(fieldVerifications, "Country of Origin"),
                  find(fieldVerifications, "Vintage Year"),
                  warningValidation),
    ReviewReasons(applicationData, extractedData.imageQuality,
                  find(fieldVerifications, "Brand Name"),
                  find(fieldVerifications, "Class/Type"),
                  find(fieldVerifications, "Producer Name"),
                  find(fieldVerifications, "Appellation"),
                  warningValidation),
    FracMin(FracDiv(SumConfidence(fieldVerifications),
                    Frac(Len(fieldVerifications), 1)),
            extractedData.confidence))

\* verification.ts: verifyLabel
verifyLabel(applicationData, extractedData, processingTimeMs) ==
  Compared(applicationData, extractedData, processingTimeMs,
           FieldVerifications(applicationData, extractedData),
           validateGovernmentWarningEnhanced(extractedData))

(***************************************************************************)
(* The verify route: POST /api/verify                                      *)
(***************************************************************************)
\* how many times a client posts the same request again
MaxResubmissions == 1

VARIABLES
  pc,        \* "idle": no request in progress; "responded": a response is out
  request,   \* the body of the request being served
  response,  \* the response: HTTP status, success, error, result (a list of at most one)
  previous,  \* confidence and status of the earlier responses to this request
  call,      \* a direct call of a library function: its name and arguments
  returned,  \* what the call returned (a list of at most one)
  batch,     \* the batch route: its request, its worker pool and its response
  upload     \* the batch upload component: its items and what it reported

vars == <<pc, request, response, previous, call, returned, batch, upload>>

NoRequest == [labelImage |-> "", mimeType |-> "", applicationData |-> <<>>]
NoResponse == [code |-> 0, success |-> FALSE, error |-> "", result |-> <<>>]

\* request bodies: a label image (its bytes do not matter to the route, only
\* whether there are any) and the application data
Bodies ==
  { [labelImage |-> image, mimeType |-> "image/jpeg", applicationData |-> app]
    : image \in {"", "base64"}, app \in {<<>>} \cup {<<a>> : a \in Applications} }

Init ==
  /\ pc = "idle"
  /\ request = NoRequest
  /\ response = NoResponse
  /\ previous = <<>>
  /\ call = <<>>
  /\ returned = <<>>
  /\ batch = <<>>
  /\ upload = <<>>

\* the response of the route when the extraction returned `extractedData`
\* after `extractionTime` ms
Verified(body, extractedData, extractionTime) ==
  [code |-> 200, success |-> TRUE, error |-> "",
   result |-> <<verifyLabel(body.applicationData[1], extractedData, extractionTime)>>]

\* POST with a body that fails validation
PostInvalid ==
  /\ pc = "idle"
  /\ \E body \in Bodies :
       /\ body.labelImage = "" \/ Len(body.applicationData) = 0
       /\ request' = body
       /\ response' = [NoResponse EXCEPT
                         !.code = 400,
                         !.error = IF body.labelImage = "" THEN "Missing label image"
                                   ELSE "Missing application data"]
  /\ pc' = "responded"
  /\ previous' = <<>>
  /\ UNCHANGED <<call, returned, batch, upload>>

\* POST where extractLabelData throws
PostExtractionFails ==
  /\ pc = "idle"
  /\ \E body \in Bodies :
       /\ body.labelImage # "" /\ Len(body.applicationData) > 0
       /\ request' = body
       /\ response' = [NoResponse EXCEPT !.code = 500,
                                         !.error = "Failed to extract label data"]
  /\ pc' = "responded"
  /\ previous' = <<>>
  /\ UNCHANGED <<call, returned, batch, upload>>

\* POST where the extraction succeeds: the label is verified
Post ==
  /\ pc = "idle"
  /\ \E body \in Bodies :
       /\ body.labelImage # "" /\ Len(body.applicationData) > 0
       /\ \E label \in Labels(body.applicationData[1]), confidence \in Confidences,
             extractionTime \in ProcessingTimes :
            /\ request' = body
            /\ response' = Verified(body, label @@ [confidence |-> confidence],
                                    extractionTime)
  /\ pc' = "responded"
  /\ previous' = <<>>
  /\ UNCHANGED <<call, returned, batch, upload>>

\* the client posts the same request again; the extraction reads the same
\* fields from the same image and differs only in the confidence it reports.
\* The two verifications are taken in the order of their confidence.
PostAgain ==
  /\ pc = "responded"
  /\ response.code = 200
  /\ Len(previous) < MaxResubmissions
  /\ \E confidence \in {c \in Confidences :
                          Less(response.result[1].extractedData.confidence, c)} :
       response' = Verified(request,
                            [response.result[1].extractedData
                               EXCEPT !.confidence = confidence],
                            response.result[1].processingTimeMs)
  /\ previous' = Append(previous,
                        [confidence |-> response.result[1].extractedData.confidence,
                         status |-> response.result[1].status])
  /\ UNCHANGED <<pc, request, call, returned, batch, upload>>

\* the exchange is over; the route keeps nothing
Done ==
  /\ pc = "responded"
  /\ pc' = "idle"
  /\ request' = NoRequest
  /\ response' = NoResponse
  /\ previous' = <<>>
  /\ UNCHANGED <<call, returned, batch, upload>>

Next == PostInvalid \/ PostExtractionFails \/ Post \/ PostAgain \/ Done

Spec == Init /\ [][Next]_vars

(***************************************************************************)
(* The library called directly, as the unit tests call it                  *)
(***************************************************************************)
\* brand names as written on applications and as read from labels; the last
\* has a typographic apostrophe
BrandNameTexts ==
  { Chars("OLD TOM DISTILLERY"), Chars("OLD TOM'S DISTILLERY"), Chars("Old Tom Distillery"),
    Chars("0LD T0M DISTILLERY"), Chars("OLD TOM DISTILLERIES"), Chars("OLD TOM DISTILLERS"),
    Chars("OLD TOM"), Chars("OLD TOMS"), Chars("STONE'S THROW"), Chars("Stone's  Throw"),
    Chars("STONES THROW"), Chars("MAKERS MARK"), Chars("JACK DANIELS"),
    Chars("MAKER'S MARK"), Chars("MAKER") \o <<"U+2019">> \o Chars("S MARK") }

\* the three values of BeverageType
BeverageTypes == {"distilled_spirits", "wine", "beer"}

\* alcohol statements as written on applications and labels: around the
\* 50% line of distilled spirits and the 14% line of wine, at and beyond the
\* tolerances
AlcoholContentTexts ==
  { "45% Alc./Vol.", "45.3% Alc./Vol.", "45.2% ABV", "45.31% alc/vol", "44.7% ABV",
    "45.04% ABV", "40% Alc./Vol. (80 Proof)", "50% ABV", "50.3% ABV", "50.2% ABV",
    "51% ABV", "51.15% ABV", "51.25% ABV", "12% ABV", "13.5% Alcohol by Volume",
    "14% ABV", "15.5% ABV", "15% ABV", "5% ABV", "5.3% ABV", "90 Proof" }

\* every value the AI can report for the warning details, and none
AllWarningDetails ==
  {<<>>} \cup
  { <<WarningDetails(prefixInAllCaps, appearsBold, textComplete, issues)>> :
      prefixInAllCaps \in BOOLEAN, appearsBold \in {"true", "false", "null"},
      textComplete \in BOOLEAN,
      issues \in {<<>>, <<"Warning text is partially obscured">>} }

\* extractions of the faithful label of baseApplicationData that differ in
\* the warning and its details only
WarningExtractions ==
  { [Faithful(baseApplicationData) EXCEPT !.governmentWarning = w,
                                          !.governmentWarningDetails = d]
    @@ [confidence |-> Pct(95)]
    : w \in {GOVERNMENT_WARNING_TEXT, UnterminatedWarning, MisspeltWarning,
             ClauseMissingWarning, TitleCaseWarning, Undefined},
      d \in AllWarningDetails }

\* warnings as read from labels: none, blank, the required text, the prefix
\* in title case, in lower case, in mixed case, without its colon and absent,
\* and texts that are cut short or misspelt
WarningInputs ==
  { Undefined, "", "   ", GOVERNMENT_WARNING_TEXT, TitleCaseWarning,
    "government warning: (1) According to the Surgeon General, women should not drink alcoholic beverages during pregnancy because of the risk of birth defects. (2) Consumption of alcoholic beverages impairs your ability to drive a car or operate machinery, and may cause health problems.",
    "GOVERNMENT Warning: (1) According to the Surgeon General, women should not drink alcoholic beverages during pregnancy because of the risk of birth defects. (2) Consumption of alcoholic beverages impairs your ability to drive a car or operate machinery, and may cause health problems.",
    "GOVERNMENT WARNING (1) According to the Surgeon General, women should not drink alcoholic beverages during pregnancy because of the risk of birth defects. (2) Consumption of alcoholic beverages impairs your ability to drive a car or operate machinery, and may cause health problems.",
    "WARNING: (1) According to the Surgeon General, women should not drink alcoholic beverages during pregnancy because of the risk of birth defects. (2) Consumption of alcoholic beverages impairs your ability to drive a car or operate machinery, and may cause health problems.",
    "GOVERNMENT WARNING: (1) According to the Surgeon General, women should not drink alcoholic beverages during pregnancy because of the risk of birth defects. (2) Consumption of alcoholic beverages impairs your ability to drive a car",
    "GOVERNMENT WARNING:",
    ClauseMissingWarning, SentenceMissingWarning, UnterminatedWarning, MisspeltWarning }

\* net contents as written on applications and labels, in millilitres,
\* litres and fluid ounces: equal, within 1%, within 5 mL and further apart
NetContentsTexts ==
  { "100 mL", "101 mL", "102 mL", "106 mL", "750 mL", "755 mL", "760 mL", "0.75 L",
    "12 fl oz", "12.1 fl oz", "12.15 fl oz", "13 fl oz", "355 mL", "350 mL", "360 mL",
    "25.4 fl oz", "one pint" }

\* extractions of the faithful label of baseApplicationData that differ in
\* the image-quality report, the alcohol content read and the confidence
ImageExtractions ==
  { [Faithful(baseApplicationData) EXCEPT !.imageQuality = q, !.alcoholContent = a]
    @@ [confidence |-> c]
    : q \in {<<>>} \cup
            { <<ImageQuality(overallScore, issues, recommendResubmit)>> :
                overallScore \in {Pct(40), Pct(69), Pct(70), Pct(90)},
                issues \in {<<>>, <<"blur">>, <<"blur", "glare">>},
                recommendResubmit \in BOOLEAN },
      a \in {"45% Alc./Vol.", "40% Alc./Vol."},
      c \in {Pct(60), Pct(95)} }

\* the calls made on the library: the function and its arguments
LibraryCalls ==
  {<<"compareBrandNames", a, l>> : a \in BrandNameTexts, l \in BrandNameTexts}
  \cup {<<"compareAlcoholContent", Chars(a), Chars(l), t>> :
          a \in AlcoholContentTexts, l \in AlcoholContentTexts, t \in BeverageTypes}
  \cup {<<"compareNetContents", Chars(a), Chars(l), t>> :
          a \in NetContentsTexts, l \in NetContentsTexts, t \in BeverageTypes}
  \cup {<<"verifyLabel", baseApplicationData, e>> :
          e \in WarningExtractions \cup ImageExtractions}
  \cup {<<"validateGovernmentWarning", w>> : w \in WarningInputs}
  \cup {<<"verifyField", name, a, l, r>> :
          name \in {"Brand Name", "Net Contents"},
          a \in {Undefined, "", "750 mL"},
          l \in {Undefined, "", "750 mL", "700 mL"},
          r \in { [matches |-> TRUE, confidence |-> One, notes |-> Undefined],
                  [matches |-> TRUE, confidence |-> Pct(95), notes |-> "Minor difference"],
                  [matches |-> FALSE, confidence |-> Zero, notes |-> "Mismatch"] }}
  \cup {<<"verifyLabel", baseApplicationData @@ declared,
           [e EXCEPT !.governmentWarningDetails =
                       <<@[1] @@ [onContrastingBackground |-> background]>>] @@ shown>> :
          declared \in
            { [fancifulName |-> f, proof |-> p, producerAddress |-> a,
               containsSulfites |-> c, ageStatement |-> g] :
                f \in {Undefined, "Special Reserve"}, p \in {Undefined, "90 Proof"},
                a \in {"Louisville, KY", "Bardstown, KY"}, c \in {Undefined, "true"},
                g \in {Undefined, "Aged 12 Years"} },
          e \in { [Faithful(baseApplicationData) EXCEPT ![field] = v] @@ [confidence |-> c] :
                    field \in {"brandName"},
                    v \in {"OLD TOM DISTILLERY", "OLD TOM DISTILLERIES", "JACK DANIELS"},
                    c \in {Pct(70), Pct(95)} },
          background \in {"true", "false", "null"},
          shown \in
            { [fancifulName |-> Undefined, proof |-> Undefined, producerAddress |-> Undefined,
               containsSulfites |-> Undefined, ageStatement |-> Undefined,
               fieldConfidences |-> <<>>, rawText |-> Undefined,
               extractionNotes |-> Undefined,
               governmentWarningFormatCorrect |-> Undefined],
              [fancifulName |-> "Small Batch", proof |-> "80 Proof",
               producerAddress |-> "Lynchburg, TN", containsSulfites |-> "true",
               ageStatement |-> "Aged 3 Years",
               fieldConfidences |-> <<[brandName |-> Pct(10), alcoholContent |-> Pct(20)]>>,
               rawText |-> "JACK DANIELS 40% ALC./VOL.",
               extractionNotes |-> "Label partially torn",
               governmentWarningFormatCorrect |-> "false"],
              [fancifulName |-> "Special Reserve", proof |-> "90 Proof",
               producerAddress |-> "Louisville, KY", containsSulfites |-> "false",
               ageStatement |-> Undefined,
               fieldConfidences |-> <<[brandName |-> One, alcoholContent |-> One]>>,
               rawText |-> "OLD TOM DISTILLERY", extractionNotes |-> Undefined,
               governmentWarningFormatCorrect |-> "true"] }}
  \cup {<<"areSemanticallySimilar", Chars(a), Chars(b)>> :
          a, b \in {"OLD TOM", "0LD T0M", "O1D TOM", "old  tom", "STONE'S", "Stones",
                    "5TONES", "BARN", "BAM", "8ARN", "MILL", "M1LL", "MI11", "JIM"}}
  \cup {<<"stringSimilarity", Chars(a), Chars(b)>> :
          a, b \in {"", " ", "hello", "HELLO", "hallo", "  hello  world ", "apple",
                    "banana", "STONE'S THROW", "Stone's Throw"}}
  \cup {<<"normalizeText", text>> :
          text \in {Chars(before) \o glyphs \o Chars(after) :
                      before \in {"", "Kentucky", "  HELLO   World  "},
                      glyphs \in {<<>>, <<"'">>, <<"U+2018">>, <<"U+2019">>, <<"U+0060">>,
                                  <<"U+00B4">>, <<"U+0022">>, <<"U+201C">>, <<"U+201D">>,
                                  <<"-">>, <<EnDash>>, <<EmDash>>, <<Ellipsis>>,
                                  <<".", ".", ".">>, <<" ", "\t", " ">>},
                      after \in {"", "s Throw", "Style  "}}}

LibraryInit ==
  /\ pc = "idle"
  /\ request = NoRequest
  /\ response = NoResponse
  /\ previous = <<>>
  /\ call \in LibraryCalls
  /\ returned = <<>>
  /\ batch = <<>>
  /\ upload = <<>>

\* compareBrandNames(applicationName, labelName) is called and returns
CallCompareBrandNames ==
  /\ call[1] = "compareBrandNames"
  /\ returned = <<>>
  /\ returned' = <<compareBrandNames(call[2], call[3])>>
  /\ UNCHANGED <<pc, request, response, previous, call, batch, upload>>

\* compareAlcoholContent(applicationContent, labelContent, beverageType) is
\* called and returns
CallCompareAlcoholContent ==
  /\ call[1] = "compareAlcoholContent"
  /\ returned = <<>>
  /\ returned' = <<compareAlcoholContent(call[2], call[3], call[4])>>
  /\ UNCHANGED <<pc, request, response, previous, call, batch, upload>>

\* compareNetContents(applicationContents, labelContents, beverageType) is
\* called and returns
CallCompareNetContents ==
  /\ call[1] = "compareNetContents"
  /\ returned = <<>>
  /\ returned' = <<compareNetContents(call[2], call[3], call[4])>>
  /\ UNCHANGED <<pc, request, response, previous, call, batch, upload>>

\* verifyLabel(applicationData, extractedData, processingTimeMs) is called,
\* as the tests call it, and returns
CallVerifyLabel ==
  /\ call[1] = "verifyLabel"
  /\ returned = <<>>
  /\ returned' = <<verifyLabel(call[2], call[3], 1000)>>
  /\ UNCHANGED <<pc, request, response, previous, call, batch, upload>>

\* validateGovernmentWarning(warningText) is called and returns
CallValidateGovernmentWarning ==
  /\ call[1] = "validateGovernmentWarning"
  /\ returned = <<>>
  /\ returned' = <<validateGovernmentWarning(call[2])>>
  /\ UNCHANGED <<pc, request, response, previous, call, batch, upload>>

\* verifyField(fieldName, applicationValue, labelValue, compareFn) is called
\* and returns; call[5] is what compareFn would return if it were invoked
CallVerifyField ==
  /\ call[1] = "verifyField"
  /\ returned = <<>>
  /\ returned' = <<verifyField(call[2], call[3], call[4], call[5])>>
  /\ UNCHANGED <<pc, request, response, previous, call, batch, upload>>

\* areSemanticallySimilar(str1, str2) is called and returns
CallAreSemanticallySimilar ==
  /\ call[1] = "areSemanticallySimilar"
  /\ returned = <<>>
  /\ returned' = <<areSemanticallySimilar(call[2], call[3])>>
  /\ UNCHANGED <<pc, request, response, previous, call, batch, upload>>

\* stringSimilarity(str1, str2) is called and returns
CallStringSimilarity ==
  /\ call[1] = "stringSimilarity"
  /\ returned = <<>>
  /\ returned' = <<stringSimilarity(call[2], call[3])>>
  /\ UNCHANGED <<pc, request, response, previous, call, batch, upload>>

\* normalizeText(text) is called and returns
CallNormalizeText ==
  /\ call[1] = "normalizeText"
  /\ returned = <<>>
  /\ returned' = <<normalizeText(call[2])>>
  /\ UNCHANGED <<pc, request, response, previous, call, batch, upload>>

LibraryNext ==
  \/ CallAreSemanticallySimilar
  \/ CallStringSimilarity
  \/ CallNormalizeText
  \/ CallCompareBrandNames
  \/ CallCompareAlcoholContent
  \/ CallCompareNetContents
  \/ CallVerifyLabel
  \/ CallValidateGovernmentWarning
  \/ CallVerifyField

LibrarySpec == LibraryInit /\ [][LibraryNext]_vars

(***************************************************************************)
(* The batch route: POST /api/verify/batch                                 *)
(***************************************************************************)
\* the largest batch posted, apart from the one that is over the limit
MaxLabels == 7

MAX_BATCH_SIZE == 50

\* the concurrency the route passes to processWithConcurrency
concurrency == 5

\* label images, by what extractLabelData makes of them: a list of one
\* extraction, or no extraction where it throws
BatchExtractions ==
  [faithful |-> <<Faithful(baseApplicationData) @@ [confidence |-> Pct(95)]>>,
   otherBrand |-> <<[Faithful(baseApplicationData) EXCEPT !.brandName = "JACK DANIELS"]
                     @@ [confidence |-> Pct(95)]>>,
   unsure |-> <<Faithful(baseApplicationData) @@ [confidence |-> Pct(50)]>>,
   unreadable |-> <<>>]

\* request bodies: no labels array, or an array (a list of one) of `n`
\* labels whose images repeat `images`
BatchBodies ==
  {[labels |-> <<>>]}
  \cup { [labels |-> <<[i \in 1..n |->
                          [id |-> i, labelImage |-> images[((i - 1) % Len(images)) + 1],
                           applicationData |-> baseApplicationData]]>>]
         : n \in 0..MaxLabels \cup {MAX_BATCH_SIZE + 1},
           images \in { <<"unreadable">>,
                        <<"faithful", "unreadable", "otherBrand", "unsure">>,
                        <<"unreadable", "unsure", "faithful">> } }

\* POST with a body the route refuses
BatchPostInvalid ==
  /\ batch.at = "idle"
  /\ \E body \in BatchBodies :
       /\ IF Len(body.labels) = 0 THEN TRUE
          ELSE Len(body.labels[1]) \notin 1..MAX_BATCH_SIZE
       /\ batch' = [batch EXCEPT
            !.at = "responded",
            !.labels = IF Len(body.labels) = 0 THEN <<>> ELSE body.labels[1],
            !.response =
              [code |-> 400, success |-> FALSE, job |-> <<>>, summary |-> <<>>,
               error |-> IF Len(body.labels) = 0
                         THEN "Invalid request: labels array required"
                         ELSE IF Len(body.labels[1]) = 0 THEN "No labels provided"
                         ELSE "Batch size exceeds maximum"]]
  /\ UNCHANGED <<pc, request, response, previous, call, returned, upload>>

\* POST with a batch the route accepts: processWithConcurrency is entered
BatchPost ==
  /\ batch.at = "idle"
  /\ \E body \in BatchBodies :
       /\ Len(body.labels) > 0
       /\ Len(body.labels[1]) > 0 /\ Len(body.labels[1]) <= MAX_BATCH_SIZE
       /\ batch' = [batch EXCEPT !.at = "loop", !.labels = body.labels[1]]
  /\ UNCHANGED <<pc, request, response, previous, call, returned, upload>>

\* the loop takes the next label: its processor starts and its promise joins
\* `executing`; with `concurrency` promises there the loop awaits their race
StartProcessor ==
  /\ batch.at = "loop"
  /\ batch.next < Len(batch.labels)
  /\ batch' = [batch EXCEPT
       !.next = @ + 1,
       !.running = @ \cup {batch.next + 1},
       !.executing = Append(@, batch.next + 1),
       !.at = IF Len(batch.executing) + 1 >= concurrency THEN "race" ELSE "loop"]
  /\ UNCHANGED <<pc, request, response, previous, call, returned, upload>>

\* Promise.race(executing) has resolved: one promise is removed from
\* `executing`.  The callback given to findIndex returns a promise, which is
\* truthy whether or not `p` has settled, so the index found is the first.
RaceResolves ==
  /\ batch.at = "race"
  /\ \E p \in Range(batch.executing) : p \notin batch.running
  /\ LET found == {i \in 1..Len(batch.executing) : TRUE}
         completedIndex == CHOOSE i \in found : \A j \in found : i <= j
     IN batch' = [batch EXCEPT
          !.executing = SubSeq(@, 1, completedIndex - 1)
                        \o SubSeq(@, completedIndex + 1, Len(@)),
          !.at = "loop"]
  /\ UNCHANGED <<pc, request, response, previous, call, returned, upload>>

\* the processor of a label settles: the extraction has returned and the
\* label is verified, or it has thrown and the error is recorded.  This
\* happens while the route's code has nothing to run: it awaits a race none of
\* whose promises has settled, or awaits Promise.all, or has responded.
ProcessorSettles ==
  /\ \/ batch.at = "race" /\ \A q \in Range(batch.executing) : q \in batch.running
     \/ batch.at = "loop" /\ batch.next = Len(batch.labels)
                          /\ \E q \in Range(batch.executing) : q \in batch.running
     \/ batch.at = "responded"
  /\ \E p \in batch.running :
       LET label == batch.labels[p]
           extracted == BatchExtractions[label.labelImage]
       IN batch' = [batch EXCEPT
            !.running = @ \ {p},
            !.results = @ \cup
              { IF Len(extracted) > 0
                THEN [id |-> label.id, error |-> Undefined,
                      result |-> <<verifyLabel(label.applicationData, extracted[1], 1000)>>]
                ELSE [id |-> label.id, error |-> "Extraction failed", result |-> <<>>] },
            !.errors = IF Len(extracted) > 0 THEN @ ELSE @ \cup {<<label.id, "Extraction failed">>}]
  /\ UNCHANGED <<pc, request, response, previous, call, returned, upload>>

\* the loop is over and Promise.all(executing) has resolved:
\* processWithConcurrency returns and the route builds its response from the
\* entries recorded so far.  The entries are kept without their order,
\* job.results as a bag.
BatchRespond ==
  /\ batch.at = "loop"
  /\ batch.next = Len(batch.labels)
  /\ \A p \in Range(batch.executing) : p \notin batch.running
  /\ LET results == batch.results
         verified == {r \in results : Len(r.result) > 0}
         Count(status) == Cardinality({r \in verified : r.result[1].status = status})
     IN batch' = [batch EXCEPT
          !.at = "responded",
          !.response =
            [code |-> 200, success |-> TRUE, error |-> "",
             job |-> <<[status |-> IF Cardinality(batch.errors) = Len(batch.labels)
                                   THEN "failed" ELSE "completed",
                        totalLabels |-> Len(batch.labels),
                        processedLabels |-> Cardinality(verified),
                        results |-> [v \in {r.result[1] : r \in verified}
                                       |-> Cardinality({r \in results : r.result = <<v>>})],
                        errors |-> batch.errors]>>,
             summary |-> <<[total |-> Len(batch.labels),
                            approved |-> Count("approved"),
                            rejected |-> Count("rejected"),
                            needsReview |-> Count("needs_review"),
                            failed |-> Cardinality({r \in results :
                                                     r.error \notin {Undefined, ""}})]>>]]
  /\ UNCHANGED <<pc, request, response, previous, call, returned, upload>>

BatchNext ==
  \/ BatchPostInvalid
  \/ BatchPost
  \/ StartProcessor
  \/ RaceResolves
  \/ ProcessorSettles
  \/ BatchRespond

\* the route before a request: nothing posted, nothing running
BatchInit ==
  /\ pc = "idle" /\ request = NoRequest /\ response = NoResponse
  /\ previous = <<>> /\ call = <<>> /\ returned = <<>> /\ upload = <<>>
  /\ batch = [at |-> "idle", labels |-> <<>>, next |-> 0, executing |-> <<>>,
              running |-> {}, results |-> {}, errors |-> {},
              response |-> [code |-> 0, success |-> FALSE, error |-> "",
                            job |-> <<>>, summary |-> <<>>]]

BatchSpec == BatchInit /\ [][BatchNext]_vars

(***************************************************************************)
(* The batch upload component: BatchUpload                                 *)
(***************************************************************************)
\* how many files are dropped in all, and how many times Process All is used
MaxFiles == 6
MaxRuns == 2

\* how many items processAll sends at a time
batchSize == 5

\* onDrop: files are dropped and join the items as pending; the drop zone is
\* disabled while a run is in progress
onDrop ==
  /\ ~upload.isProcessing
  /\ \E n \in 1..(MaxFiles - Len(upload.items)) :
       upload' = [upload EXCEPT
         !.items = @ \o [k \in 1..n |->
                           [id |-> Len(upload.items) + k, status |-> "pending",
                            result |-> <<>>, error |-> Undefined]]]
  /\ UNCHANGED <<pc, request, response, previous, call, returned, batch>>

\* Process All is clicked: processAll starts with the items of the render it
\* was created in, and keeps the ones that are not completed
processAll ==
  /\ ~upload.isProcessing
  /\ Len(upload.items) > 0
  /\ \E i \in DOMAIN upload.items : upload.items[i].status # "completed"
  /\ upload.runs < MaxRuns
  /\ upload' = [upload EXCEPT
       !.isProcessing = TRUE,
       !.runs = @ + 1,
       !.closure = upload.items,
       !.itemsToProcess = SelectSeq(upload.items, LAMBDA item : item.status # "completed"),
       !.i = 0,
       !.pending = {}]
  /\ UNCHANGED <<pc, request, response, previous, call, returned, batch>>

\* the loop takes the next batch: each of its items is set to 'processing'
\* and its request is on its way
SendBatch ==
  /\ upload.isProcessing
  /\ upload.pending = {}
  /\ upload.i < Len(upload.itemsToProcess)
  /\ LET sent == {upload.itemsToProcess[k].id :
                    k \in (upload.i + 1)..(upload.i + batchSize)
                          \cap DOMAIN upload.itemsToProcess}
     IN upload' = [upload EXCEPT
          !.items = [k \in DOMAIN @ |->
                       IF @[k].id \in sent THEN [@[k] EXCEPT !.status = "processing"]
                       ELSE @[k]],
          !.pending = sent,
          !.i = @ + batchSize]
  /\ UNCHANGED <<pc, request, response, previous, call, returned, batch>>

\* the request of an item is answered: with a result, and the item is
\* completed, or without success (or not at all), and the item is in error
Answered ==
  /\ \E id \in upload.pending, answer \in {"approved", "rejected", "error"} :
       upload' = [upload EXCEPT
         !.items = [k \in DOMAIN @ |->
                      IF @[k].id # id THEN @[k]
                      ELSE IF answer = "error"
                      THEN [@[k] EXCEPT !.status = "error", !.error = "Verification failed"]
                      ELSE [@[k] EXCEPT !.status = "completed",
                                        !.result = <<[id |-> id, status |-> answer]>>]],
         !.pending = @ \ {id}]
  /\ UNCHANGED <<pc, request, response, previous, call, returned, batch>>

\* the last batch is done: processAll reports the results of the items it
\* started with to onComplete
Completes ==
  /\ upload.isProcessing
  /\ upload.pending = {}
  /\ upload.i >= Len(upload.itemsToProcess)
  /\ LET withResult == SelectSeq(upload.closure, LAMBDA item : Len(item.result) > 0)
     IN upload' = [upload EXCEPT
          !.isProcessing = FALSE,
          !.onComplete = <<[k \in DOMAIN withResult |-> withResult[k].result[1]]>>]
  /\ UNCHANGED <<pc, request, response, previous, call, returned, batch>>

UploadNext == onDrop \/ processAll \/ SendBatch \/ Answered \/ Completes

\* the component as mounted: no items, nothing in progress
UploadInit ==
  /\ pc = "idle" /\ request = NoRequest /\ response = NoResponse
  /\ previous = <<>> /\ call = <<>> /\ returned = <<>> /\ batch = <<>>
  /\ upload = [items |-> <<>>, isProcessing |-> FALSE, runs |-> 0, closure |-> <<>>,
               itemsToProcess |-> <<>>, i |-> 0, pending |-> {}, onComplete |-> <<>>]

UploadSpec == UploadInit /\ [][UploadNext]_vars

(***************************************************************************)
(* Properties of the verification result                                   *)
(***************************************************************************)
\* a verification result is out
Served == pc = "responded" /\ response.code = 200

\* the result, the application and the extraction of the request served
Result == response.result[1]
Application == request.applicationData[1]
Extracted == Result.extractedData

BrandField == find(Result.fieldVerifications, "Brand Name")[1]
AlcoholField == find(Result.fieldVerifications, "Alcohol Content")[1]

\* the review reasons collected before the status is decided: all but the
\* three the decision itself appends
CollectedReasons ==
  SelectSeq(Result.humanReviewReasons,
            LAMBDA r : /\ r # "Critical fields may have issues but confidence is moderate"
                       /\ r # "Some fields require human verification"
                       /\ ~Mentions(r, "Low confidence score: "))

\* the confidence of the warning validation: the similarity of the extracted
\* warning to the required text, 0 when no warning is present
WarningConfidence ==
  IF ~Result.governmentWarningPresent THEN Zero
  ELSE Cached(WarningSimilarities, Extracted.governmentWarning,
              stringSimilarity(normalizeText(Chars(Extracted.governmentWarning)),
                               normalizeText(Chars(GOVERNMENT_WARNING_TEXT))))

\* the four critical-failure predicates, read off the result
WarningAbsent == ~Result.governmentWarningPresent
WarningIncorrect ==
  ~Result.governmentWarningCorrect /\ Less(WarningConfidence, Frac(85, 100))
BrandMismatch == ~BrandField.matches /\ Less(BrandField.confidence, Frac(70, 100))
AlcoholMismatch == ~AlcoholField.matches
CriticalFailure == WarningAbsent \/ WarningIncorrect \/ BrandMismatch \/ AlcoholMismatch

\* C1: a result is 'approved' only if every field matched, the warning is
\* correct, the overall confidence (hence the extraction confidence) is at
\* least 0.85 and there is no human-review reason.
ApprovedOnlyWhenPerfect ==
  (Served /\ Result.status = "approved") =>
     /\ Result.matchedFields = Result.totalFields
     /\ Result.governmentWarningCorrect
     /\ Geq(Result.overallConfidence, Frac(85, 100))
     /\ Geq(Extracted.confidence, Frac(85, 100))
     /\ Result.humanReviewReasons = <<>>

ApprovedOnlyWhenPerfectWitness ==
  /\ Served
  /\ Result.status = "approved"
  /\ Extracted.confidence = Frac(85, 100)

CriticalFieldAlwaysRejected ==
  (Served /\ (\/ ~Result.governmentWarningPresent
                \/ ~Result.governmentWarningCorrect
                \/ BrandMismatch
                \/ AlcoholMismatch)) => Result.status = "rejected"

IdenticalFields ==
  \A f \in Range(CompareFields) :
    (/\ ~IsMissing(Application[f])
     /\ f \in {"vintageYear", "appellation"} => Application.beverageType = "wine")
    => Extracted[f] = Application[f]

\* the AI reports no negative formatting flag and no issue for the warning
NoWarningFlags ==
  \A d \in Range(Extracted.governmentWarningDetails) :
    d.prefixInAllCaps /\ d.appearsBold # "false" /\ d.textComplete /\ d.issues = <<>>

\* the image-quality report adds no review reason
ImageQualityAcceptable ==
  \A q \in Range(Extracted.imageQuality) :
    ~q.recommendResubmit /\ (q.issues = <<>> \/ Geq(q.overallScore, Frac(70, 100)))

\* the declared container is a standard fill size
StandardContainer ==
  LET parsed == parseNetContents(Chars(Application.netContents))
  IN parsed.value # NoNumber =>
       isStandardFillSize(Application.beverageType,
                          IF parsed.unit = "fl oz" THEN FracMul(parsed.value, MlPerFlOz)
                          ELSE parsed.value)

\* C5: identical non-empty fields, the canonical warning without negative
\* flags or issues, a standard fill size, acceptable image quality and an
\* extraction confidence of 0.85 or more give 'approved' with every field
\* matched.
FaithfulLabelApproved ==
  (/\ Served
   /\ \A f \in {"brandName", "classType", "alcoholContent", "netContents", "producerName"} :
        ~IsMissing(Application[f])
   /\ IdenticalFields
   /\ Extracted.governmentWarning = GOVERNMENT_WARNING_TEXT
   /\ NoWarningFlags
   /\ StandardContainer
   /\ ImageQualityAcceptable
   /\ Geq(Extracted.confidence, Frac(85, 100)))
  => /\ Result.status = "approved"
     /\ Result.matchedFields = Result.totalFields

FaithfulLabelApprovedWitness ==
  /\ Served
  /\ Application = wineApplicationData
  /\ IdenticalFields
  /\ Extracted.governmentWarning = GOVERNMENT_WARNING_TEXT
  /\ NoWarningFlags
  /\ StandardContainer
  /\ ImageQualityAcceptable
  /\ Extracted.confidence = Frac(85, 100)
  /\ Result.status = "approved"
  /\ Result.totalFields = 8

ApprovalMonotoneInConfidence ==
  Served =>
    \A i \in 1..Len(previous) :
      (/\ Leq(previous[i].confidence, Extracted.confidence)
       /\ previous[i].status = "approved") => Result.status = "approved"

ApprovalMonotoneInConfidenceWitness ==
  /\ Served
  /\ Len(previous) > 0
  /\ previous[1].status = "approved"
  /\ Less(previous[1].confidence, Extracted.confidence)
  /\ Result.status = "approved"

\* the application declares OLD TOM DISTILLERY and the label reads
\* OLD TOM'S DISTILLERY
OldTomPair ==
  /\ Application.brandName = "OLD TOM DISTILLERY"
  /\ Extracted.brandName = "OLD TOM'S DISTILLERY"

\* every other field identical, the canonical warning
OtherwiseIdentical ==
  /\ \A f \in Range(CompareFields) \ {"brandName"} :
       ~IsMissing(Application[f]) => Extracted[f] = Application[f]
  /\ Extracted.governmentWarning = GOVERNMENT_WARNING_TEXT

\* C8 as stated: for OLD TOM DISTILLERY against OLD TOM'S DISTILLERY the brand
\* comparison does not match, and a verification with every other field
\* identical and the canonical warning is never 'approved'.
OldTomNeverApproved ==
  (Served /\ OldTomPair) =>
     /\ ~BrandField.matches
     /\ Geq(BrandField.confidence, Frac(70, 100))
     /\ Less(BrandField.confidence, Frac(90, 100))
     /\ OtherwiseIdentical => Result.status # "approved"

\* C8: for OLD TOM DISTILLERY against OLD TOM'S DISTILLERY the similarity is
\* exactly 0.90, so the brand comparison matches with confidence 0.90, and a
\* verification with every other field identical, the canonical warning, no
\* review reason from elsewhere and an extraction confidence of 0.85 or more
\* is 'approved'.
OldTomAccepted ==
  (Served /\ OldTomPair) =>
     /\ BrandField.matches
     /\ BrandField.confidence = Frac(90, 100)
     /\ BrandField.notes = "Minor difference detected"
     /\ (/\ OtherwiseIdentical
         /\ NoWarningFlags
         /\ StandardContainer
         /\ ImageQualityAcceptable
         /\ Geq(Extracted.confidence, Frac(85, 100))) => Result.status = "approved"

OldTomAcceptedWitness ==
  /\ Served
  /\ OldTomPair
  /\ OtherwiseIdentical
  /\ Extracted.confidence = Frac(85, 100)
  /\ Result.status = "approved"

\* C9: a brand that does not match with confidence 0.70 or more adds a review
\* reason and no 'Brand name mismatch' issue, and gives 'needs_review' when
\* nothing else is a critical failure; a brand that does not match with
\* confidence under 0.70 adds 'Brand name mismatch' and is a critical
\* failure.
BrandNearMissReviewed ==
  (Served /\ ~BrandField.matches) =>
     LET brandReasons == {r \in Range(Result.humanReviewReasons) :
                            Mentions(r, "Brand name requires review")}
         mismatchFlagged == "Brand name mismatch" \in Range(Result.flaggedIssues)
     IN IF Geq(BrandField.confidence, Frac(70, 100))
        THEN /\ brandReasons # {}
             /\ ~mismatchFlagged
             /\ (~WarningAbsent /\ ~WarningIncorrect /\ ~AlcoholMismatch)
                  => Result.status = "needs_review"
        ELSE /\ brandReasons = {}
             /\ mismatchFlagged
             /\ Result.status =
                  IF /\ Geq(Result.overallConfidence, Frac(70, 100))
                     /\ Len(CollectedReasons) > 0
                  THEN "needs_review" ELSE "rejected"

BrandNearMissReviewedWitness ==
  /\ Served
  /\ ~BrandField.matches
  /\ BrandField.confidence = Frac(85, 100)
  /\ ~WarningAbsent /\ ~WarningIncorrect /\ ~AlcoholMismatch
  /\ Geq(Extracted.confidence, Frac(85, 100))
  /\ Result.status = "needs_review"

\* C10: compareBrandNames matches with confidence 1.0 for names that are
\* semantically equal or have similarity 1.0; otherwise it matches with the
\* similarity as confidence from 0.90 up, and does not match, with the
\* similarity as confidence, below 0.90: with a note asking for review from
\* 0.70 up and a mismatch note below.
BrandComparisonBands ==
  (Len(call) > 0 /\ call[1] = "compareBrandNames" /\ Len(returned) > 0) =>
     LET similarity == stringSimilarity(call[2], call[3])
         result == returned[1]
     IN IF areSemanticallySimilar(call[2], call[3]) \/ similarity = Frac(1, 1)
        THEN result.matches /\ result.confidence = Frac(1, 1)
        ELSE IF Geq(similarity, Frac(90, 100))
        THEN result.matches /\ result.confidence = similarity
        ELSE /\ ~result.matches
             /\ result.confidence = similarity
             /\ result.notes = IF Geq(similarity, Frac(70, 100))
                               THEN "Possible match requiring review"
                               ELSE "Mismatch"

BrandComparisonBandsWitness ==
  /\ Len(call) > 0 /\ call[1] = "compareBrandNames" /\ Len(returned) > 0
  /\ areSemanticallySimilar(call[2], call[3])
  /\ Less(stringSimilarity(call[2], call[3]), Frac(90, 100))
  /\ returned[1].matches
  /\ returned[1].confidence = Frac(1, 1)

\* a call of the library function `name` has returned
Returned(name) == Len(call) > 0 /\ call[1] = name /\ Len(returned) > 0

\* the percentages of the two alcohol statements compared
AppPercentage == parseAlcoholContent(call[2]).percentage
LabelPercentage == parseAlcoholContent(call[3]).percentage
BothPercentages == AppPercentage # NoNumber /\ LabelPercentage # NoNumber
PercentageDiff == FracAbs(FracSub(AppPercentage, LabelPercentage))

\* the tolerance the rules give for the beverage type and the application's
\* percentage
TtbTolerance ==
  CASE call[4] = "distilled_spirits" ->
         IF Leq(AppPercentage, Frac(50, 1)) THEN Frac(30, 100) ELSE Frac(15, 100)
    [] call[4] = "wine" ->
         IF Leq(AppPercentage, Frac(14, 1)) THEN Frac(15, 10) ELSE Frac(1, 1)
    [] call[4] = "beer" -> Frac(30, 100)

\* C11: when both texts parse to a percentage, compareAlcoholContent matches
\* exactly when |app - label| <= T, T being 0.3 (spirits up to 50%), 0.15
\* (spirits above 50%), 1.5 (wine up to 14%), 1.0 (wine above 14%) or 0.3
\* (beer), chosen by the application's percentage; the confidence is 1.0 for
\* no difference, 1 - (diff / T) * 0.1, hence at least 0.9, for a tolerated
\* difference, and 0.0 for a mismatch.
AlcoholWithinTolerance ==
  (Returned("compareAlcoholContent") /\ BothPercentages) =>
     LET result == returned[1]
     IN /\ result.matches <=> Leq(PercentageDiff, TtbTolerance)
        /\ result.confidence =
             IF PercentageDiff = Zero THEN Frac(1, 1)
             ELSE IF Leq(PercentageDiff, TtbTolerance)
             THEN FracSub(Frac(1, 1),
                          FracMul(FracDiv(PercentageDiff, TtbTolerance), Frac(1, 10)))
             ELSE Frac(0, 1)
        /\ result.matches => Geq(result.confidence, Frac(9, 10))

\* a high-proof spirit exactly 0.15 off is matched with confidence 0.9
AlcoholWithinToleranceWitness ==
  /\ Returned("compareAlcoholContent") /\ BothPercentages
  /\ call[4] = "distilled_spirits"
  /\ Less(Frac(50, 1), AppPercentage)
  /\ PercentageDiff = Frac(15, 100)
  /\ returned[1].matches
  /\ returned[1].confidence = Frac(9, 10)

\* the text check on a warning: the exact prefix, similarity to the required
\* text of at least 0.95 and no required phrase missing
TextCheckPasses(warningText) ==
  /\ warningText # Undefined
  /\ Mentions(warningText, "GOVERNMENT WARNING:")
  /\ Geq(WarningSimilarities[warningText], Frac(95, 100))
  /\ \A phrase \in Range(GOVERNMENT_WARNING_REQUIRED_PHRASES) :
       includes(normalizeText(Chars(warningText)), Chars(phrase))

\* the AI's warning details, when supplied, report nothing wrong
DetailsClean(governmentWarningDetails) ==
  \/ Len(governmentWarningDetails) = 0
  \/ /\ governmentWarningDetails[1].prefixInAllCaps
     /\ governmentWarningDetails[1].textComplete
     /\ governmentWarningDetails[1].appearsBold # "false"
     /\ Len(governmentWarningDetails[1].issues) = 0

\* C12: in the result of verifyLabel, governmentWarningCorrect is true only
\* if the text check passes and the AI's warning details, when supplied, are
\* clean (prefix in capitals, text complete, not reported as not bold, no
\* issue listed); with both signals clean it is true.
WarningCorrectOnlyWhenClean ==
  Returned("verifyLabel") =>
    (returned[1].governmentWarningCorrect <=>
       /\ TextCheckPasses(call[3].governmentWarning)
       /\ DetailsClean(call[3].governmentWarningDetails))

\* the text passes and the only thing wrong is that the AI reports the
\* prefix as not bold: the warning is not correct
WarningCorrectOnlyWhenCleanWitness ==
  /\ Returned("verifyLabel")
  /\ TextCheckPasses(call[3].governmentWarning)
  /\ Len(call[3].governmentWarningDetails) = 1
  /\ call[3].governmentWarningDetails[1] = WarningDetails(TRUE, "false", TRUE, <<>>)
  /\ ~returned[1].governmentWarningCorrect

\* the warning text is absent or blank
BlankWarning ==
  call[2] = Undefined \/ \A i \in 1..Len(call[2]) : Chars(call[2])[i] \in WhiteSpace

\* the text holds the exact prefix; it holds the words in any case
ExactPrefix == includes(Chars(call[2]), Chars("GOVERNMENT WARNING:"))
LoosePrefix == includes(toLowerCase(Chars(call[2])), Chars("government warning"))

\* C13: validateGovernmentWarning returns present = false, correct = false
\* for an absent or blank text; present = true, correct = false and an issue
\* naming the defect (title case, lower case, missing colon) for a text
\* without the exact 'GOVERNMENT WARNING:' that holds 'government warning' in
\* some case; present = false for a text with neither; and at least one issue
\* whenever correct = false.
WarningPrefixVerdicts ==
  Returned("validateGovernmentWarning") =>
    LET result == returned[1]
    IN /\ BlankWarning => ~result.present /\ ~result.correct
       /\ (~BlankWarning /\ ~ExactPrefix /\ LoosePrefix) =>
            /\ result.present /\ ~result.correct
            /\ Len(result.issues) > 0
            /\ includes(Chars(call[2]), Chars("Government Warning:")) =>
                 includes(Chars(result.issues[1]), Chars("title case"))
            /\ ( /\ ~includes(Chars(call[2]), Chars("Government Warning:"))
                 /\ includes(Chars(call[2]), Chars("government warning:")) ) =>
                 includes(Chars(result.issues[1]), Chars("lowercase"))
            /\ ( /\ ~includes(Chars(call[2]), Chars("Government Warning:"))
                 /\ ~includes(Chars(call[2]), Chars("government warning:"))
                 /\ includes(Chars(call[2]), Chars("GOVERNMENT WARNING")) ) =>
                 includes(Chars(result.issues[1]), Chars("Missing colon"))
            /\ includes(Chars(result.issues[1]), Chars("ALL CAPS"))
                 \/ includes(Chars(result.issues[1]), Chars("colon"))
       /\ (~BlankWarning /\ ~ExactPrefix /\ ~LoosePrefix) => ~result.present
       /\ ~result.correct => Len(result.issues) > 0

\* the prefix in title case: present, not correct, the issue says so
WarningPrefixVerdictsWitness ==
  /\ Returned("validateGovernmentWarning")
  /\ call[2] = TitleCaseWarning
  /\ returned[1].present /\ ~returned[1].correct
  /\ includes(Chars(returned[1].issues[1]), Chars("title case"))

\* C14: verifyField returns matches = true with confidence 1.0 for an empty
\* or unset application value, whatever the label value, and matches = false
\* with confidence 0.0 for an application value with no label value; in both
\* cases the comparison function is not invoked: nothing it would return
\* shows in the result.
MissingValuesNotCompared ==
  Returned("verifyField") =>
    LET result == returned[1]
    IN /\ (call[3] = Undefined \/ call[3] = "") =>
            /\ result.matches /\ result.confidence = Frac(1, 1)
            /\ result.notes = "Field not specified in application"
       /\ (call[3] # Undefined /\ call[3] # "" /\ (call[4] = Undefined \/ call[4] = "")) =>
            /\ ~result.matches /\ result.confidence = Frac(0, 1)
            /\ result.notes = "Field not found on label"

\* a field the label does not show, where the comparison would have matched
MissingValuesNotComparedWitness ==
  /\ Returned("verifyField")
  /\ call[3] = "750 mL" /\ call[4] = Undefined
  /\ call[5].matches
  /\ ~returned[1].matches /\ returned[1].confidence = Frac(0, 1)

\* the two net contents compared, as parsed
AppContents == parseNetContents(call[2])
LabelContents == parseNetContents(call[3])
BothContents == AppContents.value # NoNumber /\ LabelContents.value # NoNumber

\* C15: when both sides parse to the same unit and their values differ by
\* more than 1% of the application value, compareNetContents returns
\* matches = false with confidence 0.0; the 0.90 'matched after unit
\* conversion' result is produced only when the units differ.
SameUnitBeyondToleranceRejected ==
  (Returned("compareNetContents") /\ BothContents) =>
    /\ ( /\ AppContents.unit = LabelContents.unit
         /\ Less(FracMul(AppContents.value, Frac(1, 100)),
                 FracAbs(FracSub(AppContents.value, LabelContents.value))) ) =>
         (~returned[1].matches /\ returned[1].confidence = Frac(0, 1))
    /\ returned[1].notes = "Matched after unit conversion" =>
         AppContents.unit # LabelContents.unit

\* a value in millilitres
InMl(contents) ==
  IF contents.unit = "fl oz" THEN FracMul(contents.value, Frac(295735, 10000))
  ELSE contents.value

\* C16: when one side is in fluid ounces and the other in millilitres, in
\* either order, compareNetContents converts the fluid ounces by 29.5735 and
\* returns matches = true with confidence 0.90 when the two values are less
\* than 5 mL apart, and matches = false with confidence 0.0 otherwise;
\* '12 fl oz' against '355 mL' matches.
ConvertedUnitsCompared ==
  ( /\ Returned("compareNetContents") /\ BothContents
    /\ AppContents.unit # LabelContents.unit ) =>
    /\ {AppContents.unit, LabelContents.unit} = {"fl oz", "ml"}
    /\ IF Less(FracAbs(FracSub(InMl(AppContents), InMl(LabelContents))), Frac(5, 1))
       THEN returned[1].matches /\ returned[1].confidence = Frac(90, 100)
       ELSE ~returned[1].matches /\ returned[1].confidence = Frac(0, 1)
    /\ (call[2] = Chars("12 fl oz") /\ call[3] = Chars("355 mL")) => returned[1].matches

ConvertedUnitsComparedWitness ==
  /\ Returned("compareNetContents")
  /\ call[2] = Chars("355 mL") /\ call[3] = Chars("12 fl oz")
  /\ AppContents.unit = "ml" /\ LabelContents.unit = "fl oz"
  /\ returned[1].matches /\ returned[1].confidence = Frac(90, 100)

NetContentsField == find(Result.fieldVerifications, "Net Contents")[1]

\* the review reasons about the container size
SizeReasons ==
  SelectSeq(Result.humanReviewReasons,
            LAMBDA r : Mentions(r, "Non-standard container size"))

\* C17: a non-standard container size (the 700 mL of oddSizeApplicationData)
\* is advisory only: it adds exactly one human-review reason and a note on
\* an exactly matching Net Contents field, which still matches; it adds
\* nothing to flaggedIssues; and it does not by itself get the label
\* rejected: a rejection comes with a critical failure, and the faithful
\* label is sent to review.  A standard size adds no such reason.
NonStandardSizeAdvisory ==
  Served =>
    /\ Len(SizeReasons) = IF Application = oddSizeApplicationData THEN 1 ELSE 0
    /\ Application = oddSizeApplicationData =>
         /\ Extracted.netContents \in {"700 mL", "0.7 L"} =>
              /\ NetContentsField.matches
              /\ NetContentsField.confidence = Frac(1, 1)
              /\ NetContentsField.notes = "Non-standard container size"
         /\ \A i \in 1..Len(Result.flaggedIssues) :
              /\ ~Mentions(Result.flaggedIssues[i], "size")
              /\ ~Mentions(Result.flaggedIssues[i], "container")
         /\ Result.status = "rejected" => CriticalFailure
         /\ ( /\ IdenticalFields /\ NoWarningFlags /\ ImageQualityAcceptable
              /\ Extracted.governmentWarning = GOVERNMENT_WARNING_TEXT
              /\ Geq(Extracted.confidence, Frac(85, 100)) ) =>
              /\ Result.status = "needs_review"
              /\ Result.matchedFields = Result.totalFields
              /\ Result.flaggedIssues = <<>>
              /\ Result.humanReviewReasons = <<"Non-standard container size: 700 mL">>

NonStandardSizeAdvisoryWitness ==
  /\ Served
  /\ Application = oddSizeApplicationData
  /\ IdenticalFields /\ NoWarningFlags /\ ImageQualityAcceptable
  /\ Extracted.governmentWarning = GOVERNMENT_WARNING_TEXT
  /\ Geq(Extracted.confidence, Frac(85, 100))
  /\ NetContentsField.matches
  /\ NetContentsField.notes = "Non-standard container size"
  /\ Result.status = "needs_review"
  /\ Result.humanReviewReasons = <<"Non-standard container size: 700 mL">>

\* the review reasons about the image: the one that follows a recommendation
\* to resubmit, the softer one for a low score
ResubmitReasons ==
  SelectSeq(returned[1].humanReviewReasons, LAMBDA r : Mentions(r, "Image quality issues: "))
LowQualityReasons ==
  SelectSeq(returned[1].humanReviewReasons,
            LAMBDA r : Mentions(r, "Low image quality may affect accuracy"))

ReviewExactlyWithReasons ==
  Served => (Result.requiresHumanReview <=> Len(Result.humanReviewReasons) > 0)

\* a rejected label that had collected a review reason
ReviewExactlyWithReasonsWitness ==
  /\ Served
  /\ Result.status = "rejected"
  /\ Len(Result.humanReviewReasons) > 0
  /\ Result.requiresHumanReview

\* the sum of the confidences of the first k field verifications
RECURSIVE ConfidenceSum(_, _)
ConfidenceSum(fieldVerifications, k) ==
  IF k = 0 THEN Frac(0, 1)
  ELSE FracAdd(ConfidenceSum(fieldVerifications, k - 1), fieldVerifications[k].confidence)

\* the arithmetic mean of the field confidences of the result
MeanFieldConfidence ==
  FracDiv(ConfidenceSum(Result.fieldVerifications, Len(Result.fieldVerifications)),
          Frac(Len(Result.fieldVerifications), 1))

\* C20: for an extraction confidence in [0, 1], the result of verifyLabel has
\* matchedFields <= totalFields, totalFields >= 5, every field confidence in
\* [0, 1] and overallConfidence equal to the smaller of the mean of the field
\* confidences and the extraction confidence, hence in [0, 1].
OverallConfidenceBounded ==
  (Served /\ Leq(Frac(0, 1), Extracted.confidence) /\ Leq(Extracted.confidence, Frac(1, 1))) =>
    /\ Result.matchedFields <= Result.totalFields
    /\ Result.totalFields >= 5
    /\ Result.totalFields = Len(Result.fieldVerifications)
    /\ \A k \in 1..Len(Result.fieldVerifications) :
         /\ Leq(Frac(0, 1), Result.fieldVerifications[k].confidence)
         /\ Leq(Result.fieldVerifications[k].confidence, Frac(1, 1))
    /\ Result.overallConfidence =
         IF Less(Extracted.confidence, MeanFieldConfidence)
         THEN Extracted.confidence ELSE MeanFieldConfidence
    /\ Leq(Frac(0, 1), Result.overallConfidence)
    /\ Leq(Result.overallConfidence, Frac(1, 1))

\* the mean of the field confidences is below the extraction confidence and
\* is the overall confidence
OverallConfidenceBoundedWitness ==
  /\ Served
  /\ Result.matchedFields < Result.totalFields
  /\ Less(MeanFieldConfidence, Extracted.confidence)
  /\ Less(Frac(0, 1), MeanFieldConfidence)
  /\ Result.overallConfidence = MeanFieldConfidence

(***************************************************************************)
(* Properties of the batch route                                           *)
(***************************************************************************)
\* the label analyses in flight: processors started and not yet settled
InFlight == batch.running

\* the route has answered a batch it accepted
BatchServed == batch.at = "responded" /\ batch.response.code = 200

\* C21: during a batch request there are never more than 5 label analyses
\* in flight at the same time
AtMostFiveInFlight == Cardinality(InFlight) <= 5

\* the job and the summary of the response to an accepted batch
Job == batch.response.job[1]
Summary == batch.response.summary[1]

\* the labels of the batch whose extraction throws
FailingLabels ==
  {i \in 1..Len(batch.labels) : Len(BatchExtractions[batch.labels[i].labelImage]) = 0}

\* C22: a label whose extraction or verification fails is recorded as an
\* error and counted in summary.failed, in none of approved, rejected and
\* needsReview, the other labels are still processed, and the job status is
\* 'failed' exactly when every label failed
FailuresKeptPerLabel ==
  BatchServed =>
    /\ Summary.failed = Cardinality(Job.errors)
    /\ Summary.approved + Summary.rejected + Summary.needsReview = Job.processedLabels
    /\ Job.processedLabels = BagCardinality(Job.results)
    /\ \A result \in DOMAIN Job.results :
         result.status \in {"approved", "rejected", "needs_review"}
    /\ (Job.status = "failed") <=> (FailingLabels = 1..Len(batch.labels))

\* C26: when the route builds its response the processor of every label has
\* settled: every label has its entry, a result or an error, and
\* approved + rejected + needsReview + failed = total
EveryLabelAccountedFor ==
  BatchServed =>
    /\ Job.processedLabels + Cardinality(Job.errors) = Job.totalLabels
    /\ Summary.approved + Summary.rejected + Summary.needsReview + Summary.failed
         = Summary.total

(***************************************************************************)
(* Properties of the text functions                                        *)
(***************************************************************************)
\* the first text of an areSemanticallySimilar call after substitution k of
\* the OCR table alone
SubstitutedAlone(k) ==
  ReplaceAllIgnoreCase(normalizeForOcrErrors(call[2]), CharacterSubstitutions[k].from,
                       toLowerCase(CharacterSubstitutions[k].to))

\* C23: areSemanticallySimilar returns true when the two texts are equal
\* after normalization and possessive stripping, and when any one
\* substitution of the OCR table, applied on its own to the first, gives the
\* second
SingleSubstitutionMatches ==
  Returned("areSemanticallySimilar") =>
    ( ( \/ normalizeForOcrErrors(call[2]) = normalizeForOcrErrors(call[3])
        \/ \E k \in DOMAIN CharacterSubstitutions :
             SubstitutedAlone(k) = normalizeForOcrErrors(call[3]) )
      => returned[1] )

\* C24, as claimed: stringSimilarity is symmetric, 1 for a non-empty text
\* and itself, and 0 for a non-empty text and the empty text
SimilarityOfNonEmptyTexts ==
  Returned("stringSimilarity") =>
    /\ returned[1] = stringSimilarity(call[3], call[2])
    /\ (Len(call[2]) > 0 /\ call[3] = call[2]) => returned[1] = One
    /\ (Len(call[2]) > 0 /\ call[3] = <<>>) => returned[1] = Zero
    /\ (call[2] = <<>> /\ Len(call[3]) > 0) => returned[1] = Zero

\* C24: stringSimilarity is symmetric, 1 for a text and itself, and 0 for
\* the empty text and a text that is not empty once it is normalized
SimilarityOfNormalizedTexts ==
  Returned("stringSimilarity") =>
    /\ returned[1] = stringSimilarity(call[3], call[2])
    /\ call[3] = call[2] => returned[1] = One
    /\ (Len(normalizeText(call[2])) > 0 /\ call[3] = <<>>) => returned[1] = Zero
    /\ (call[2] = <<>> /\ Len(normalizeText(call[3])) > 0) => returned[1] = Zero

\* a text that is not empty once normalized has been compared with the
\* empty text
SimilarityOfNormalizedTextsWitness ==
  /\ Returned("stringSimilarity")
  /\ Len(normalizeText(call[2])) > 0
  /\ call[3] = <<>>
  /\ returned[1] = Zero

\* C25: normalizeText lower-cases, collapses white space and trims, maps the
\* curly single quotes and the grave and acute accents to the apostrophe,
\* the curly double quotes to the double quote, the en dash and the em dash
\* to the hyphen, and the ellipsis to three periods
NormalizesQuotesDashesEllipsis ==
  Returned("normalizeText") =>
    returned[1] =
      trim(
        ReplaceChars(
          ReplaceChars(
            ReplaceChars(
              ReplaceChars(
                CollapseWhiteSpace(toLowerCase(call[2])),
                {"U+2018", "U+2019", "U+0060", "U+00B4"}, <<"'">>),
              {"U+201C", "U+201D"}, <<"U+0022">>),
            {"U+2013", "U+2014"}, <<"-">>),
          {"U+2026"}, <<".", ".", ".">>))

(***************************************************************************)
(* Properties of verifyLabel called directly                               *)
(***************************************************************************)
\* C27: verifyLabel never returns 'approved' when the image-quality report
\* of the extraction lists at least one defect
NoApprovalWithImageDefects ==
  Returned("verifyLabel") =>
    ( ( /\ Len(call[3].imageQuality) > 0
        /\ Len(call[3].imageQuality[1].issues) > 0 )
      => returned[1].status # "approved" )

(***************************************************************************)
(* Properties of the explanations of a verdict                             *)
(***************************************************************************)
\* how the issues and reasons of verifyLabel name each field
FieldWording ==
  [f \in {"Brand Name", "Class/Type", "Alcohol Content", "Net Contents", "Producer Name",
          "Country of Origin", "Vintage Year", "Appellation"} |->
     CASE f = "Brand Name" -> "Brand name"
       [] f = "Class/Type" -> "Class/type"
       [] f = "Alcohol Content" -> "Alcohol content"
       [] f = "Net Contents" -> "Net contents"
       [] f = "Producer Name" -> "Producer name"
       [] f = "Country of Origin" -> "Country of origin"
       [] f = "Vintage Year" -> "Vintage year"
       [] OTHER -> "Appellation"]

\* the flagged issues and the review reasons of the result
Explanations == Range(Result.flaggedIssues) \cup Range(Result.humanReviewReasons)

\* C28: a rejected result has a flagged issue, a result in need of review
\* has a review reason, every field that does not match is named by a
\* flagged issue or a review reason, and an approved result has neither
\* issues nor reasons
VerdictExplained ==
  Served =>
    /\ Result.status = "rejected" => Len(Result.flaggedIssues) > 0
    /\ Result.status = "needs_review" => Len(Result.humanReviewReasons) > 0
    /\ \A i \in DOMAIN Result.fieldVerifications :
         ~Result.fieldVerifications[i].matches =>
           \E text \in Explanations :
             Mentions(text, FieldWording[Result.fieldVerifications[i].field])
    /\ Result.status = "approved" =>
         Result.flaggedIssues = <<>> /\ Result.humanReviewReasons = <<>>

\* a label is rejected for fields that are not critical, the net contents
\* among them
VerdictExplainedWitness ==
  /\ Served
  /\ Result.status = "rejected"
  /\ ~CriticalFailure
  /\ ~NetContentsField.matches

\* the inputs of verifyLabel that the claim says the verdict does not depend
\* on: fields of the application and of the extraction, and one flag of the
\* warning details
UncomparedFields ==
  {"fancifulName", "proof", "producerAddress", "containsSulfites", "ageStatement",
   "fieldConfidences", "rawText", "extractionNotes", "governmentWarningFormatCorrect"}

\* a record without the listed fields
Without(record, fields) == [f \in DOMAIN record \ fields |-> record[f]]

\* the extraction of a call without the uncompared inputs
ComparedExtraction ==
  [Without(call[3], UncomparedFields) EXCEPT
     !.governmentWarningDetails =
        IF Len(@) = 0 THEN @ ELSE <<Without(@[1], {"onContrastingBackground"})>>]

\* the verdict of a result: all of it but the extraction it passes through
Verdict(result) == Without(result, {"extractedData"})

ItemsIn(status) == {k \in DOMAIN upload.items : upload.items[k].status = status}

\* a run of processAll has finished, and no other has started since
RunOver == ~upload.isProcessing /\ Len(upload.onComplete) > 0

\* C30: processAll moves every item that is not completed to 'processing'
\* and then to 'completed' or 'error', at most 5 at a time, never sends a
\* completed item again, and when it finishes calls onComplete with the
\* results of every item that completed, those of this run included
ProcessAllReportsEveryResult ==
  /\ Cardinality(ItemsIn("processing")) <= 5
  /\ \A k \in ItemsIn("processing") : upload.closure[k].status # "completed"
  /\ \A k \in DOMAIN upload.items :
       (upload.items[k].status = "completed") <=> (Len(upload.items[k].result) > 0)
  /\ RunOver =>
       /\ \A k \in DOMAIN upload.closure : upload.items[k].status \in {"completed", "error"}
       /\ Range(upload.onComplete[1])
            = {upload.items[k].result[1] : k \in ItemsIn("completed")}

=============================================================================
